---- MODULE Spec2Model ----
(***************************************************************************)
(* Model of the update orchestration engine of scripts/update-all.py:     *)
(* the output parser, the retry wrapper, the sequential and the parallel  *)
(* execution strategies and the resume filter.                            *)
(*                                                                         *)
(* Representation choices                                                  *)
(*  - a script name is a sequence of one-character strings, so that the   *)
(*    str comparison of list.sort and str.replace can be computed;        *)
(*  - a script output is a sequence of whitespace-separated tokens:       *)
(*      "{" "}"            the brace characters                            *)
(*      "ut" "uf" "un"     the text  "updated": true / false / null        *)
(*      "ver"              the text  , "version": "1.2.3"                  *)
(*      "nl"               a line break                                    *)
(*      "x"                a word without keyword, brace or line break     *)
(*      "Updated" "ucs" "noupd" "uptodate"   the heuristic keywords        *)
(*  - an UpdateResult is a record; its output and duration fields, which  *)
(*    differ from one execution to the next, are represented by exec_no,  *)
(*    the ordinal of the execution that produced the result;              *)
(*  - None is the record NoneResult;                                       *)
(*  - what a script does when it is executed is an input: a stream of     *)
(*    outcomes, one for each successive execution of the script;          *)
(*  - a point in time (the pause of a provider, the end of a sleep) is    *)
(*    kept as its distance from the current reading of time.time(): t     *)
(*    stands for time.time() + t, and 0 for any time that is not in the   *)
(*    future. The code only compares such points with the clock.          *)
(***************************************************************************)
EXTENDS Integers, Sequences, FiniteSets, TLC

VARIABLES
    \* ---- process-wide globals
    MANIFEST_VERSION_CACHE,    \* package name -> version string
    PREFER_STRUCTURED_OUTPUT,  \* structured-only flag
    \* ---- parse_script_output called on its own
    p_output, p_script, p_pc, p_ret,
    \* ---- run_update_script_with_retry
    retries,     \* the retries argument (of every strategy too)
    r_script,    \* the script of a call of the wrapper on its own
    r_stream,    \* what the successive executions of that script will do
    r_pc, r_ret, r_sleeps,
    execs,       \* history: per call slot, the results of the executions
    \* ---- run_sequential
    scripts, fail_fast, max_fail, delay, s_pc, s_i, s_results, failures,
    s_broke, s_slept,
    \* ---- run_parallel
    max_workers_arg, workers_arg, circuit_threshold, circuit_sleep,
    prov_map, max_workers, sems, prov_paused_until, prov_failures,
    t_pc, t_wake, t_result, results, m_pc,
    \* ---- filter_resume_paths
    f_paths, f_prev, f_pc, f_ret,
    \* ---- get_manifest_version
    disk,        \* package name -> what bucket/<name>.json is on disk
    reads,       \* history: package name -> number of reads of its manifest
    g_n,         \* history: number of calls made so far
    g_pkg,       \* the argument of the last call of get_manifest_version
    g_before,    \* history: the cache entry of g_pkg when that call began
    g_ret,       \* the value returned by that call
    g_read,      \* history: whether that call read the manifest
    \* ---- write_json_summary
    j_results,   \* the results argument
    j_mode,      \* args.json_summary and what the file system does
    j_pc,
    j_file,      \* the document written to the summary path
    \* ---- main
    args,            \* the parsed command line
    provider_class,  \* script name -> what classify_provider returns
    paths_in,        \* history: script_paths before the provider filters
    script_paths,
    o_pc,
    main_results,    \* the results returned by the strategy
    executed,        \* history: the scripts the strategy has run
    git_log,         \* history: the git commands issued
    md_written,      \* history: the Markdown summary was written
    webhook_sent,    \* history: the webhook was delivered
    exit_code,       \* "none" until the process exits
    \* ---- run_parallel: the lock of the circuit breaker
    lock,            \* "free", or the thread that holds the lock
    increments,      \* history: provider -> increments of its counter
    \* ---- main: the git block command by command
    worktree,        \* manifest -> "clean", "modified", "untracked", "missing"
    index,           \* manifest -> "-" (not staged), "A" or "M"
    commits,         \* the commits created: [subject, files]
    git_ops,         \* the git commands run: [cmd, path, rc, out]
    git_pc,          \* the position of main in the git block
    todo,            \* the manifests the current loop has still to handle
    added_apps,      \* the result of get_staged_bucket_changes
    updated_apps,
    \* ---- classify_provider
    c_path,          \* the name of the script to classify
    provider_map,    \* the override mapping: key -> value, or "absent"
    c_file,          \* the script file: [readable, text]
    c_pc,            \* "idle", "call" or "done"
    c_ret            \* what classify_provider returned

globalVars == <<MANIFEST_VERSION_CACHE, PREFER_STRUCTURED_OUTPUT>>
parseVars  == <<p_output, p_script, p_pc, p_ret>>
retryVars  == <<retries, r_script, r_stream, r_pc, r_ret, r_sleeps, execs>>
seqVars    == <<scripts, fail_fast, max_fail, delay, s_pc, s_i, s_results,
                failures, s_broke, s_slept>>
parVars    == <<max_workers_arg, workers_arg, circuit_threshold,
                circuit_sleep, prov_map, max_workers, sems,
                prov_paused_until, prov_failures, t_pc, t_wake, t_result,
                results, m_pc>>
resumeVars == <<f_paths, f_prev, f_pc, f_ret>>
cacheVars  == <<disk, reads, g_n, g_pkg, g_before, g_ret, g_read>>
\* the state outside the output parser, the retry wrapper, the strategies
\* and the resume filter
jsonVars   == <<j_results, j_mode, j_pc, j_file>>
mainVars   == <<args, provider_class, paths_in, script_paths, o_pc,
                main_results, executed, git_log, md_written, webhook_sent,
                exit_code>>
lockVars   == <<lock, increments>>
gitVars    == <<worktree, index, commits, git_ops, git_pc, todo,
                added_apps, updated_apps>>
classVars  == <<c_path, provider_map, c_file, c_pc, c_ret>>
lateVars   == <<lockVars, gitVars, classVars>>
restVars   == <<cacheVars, jsonVars, mainVars, lateVars>>
vars == <<globalVars, parseVars, retryVars, seqVars, parVars, resumeVars,
          restVars>>

----------------------------------------------------------------------------
(* Bounds of the model *)

MaxLen == 4          \* longest script output, in tokens
MaxRetries == 2      \* largest value of the retries argument
MaxTasks == 3        \* longest task list of run_sequential
MaxParTasks == 2     \* longest task list of run_parallel
MaxLimit == 1        \* largest per-provider worker limit
MaxPrev == 2         \* largest number of records of a resume summary
MaxCalls == 3        \* longest sequence of cache operations
MaxResults == 3      \* longest result list of a summary

----------------------------------------------------------------------------
(* Generic helpers *)

Min(a, b) == IF a <= b THEN a ELSE b
Max(a, b) == IF a >= b THEN a ELSE b

SeqsUpTo(S, n) == UNION {[1..k -> S] : k \in 0..n}

RECURSIVE Pow2(_)
Pow2(n) == IF n <= 0 THEN 1 ELSE 2 * Pow2(n - 1)

\* code points of the characters that occur in the script names of the model
Ord(c) ==
    CASE c = "-" -> 45 [] c = "." -> 46 [] c = "B" -> 66
      [] c = "a" -> 97 [] c = "b" -> 98 [] c = "c" -> 99 [] c = "d" -> 100
      [] c = "e" -> 101 [] c = "p" -> 112 [] c = "t" -> 116
      [] c = "u" -> 117 [] c = "y" -> 121 [] c = "z" -> 122

\* str.__lt__: lexicographic comparison by code point
RECURSIVE StrLess(_, _)
StrLess(a, b) ==
    IF a = <<>> THEN b # <<>>
    ELSE IF b = <<>> THEN FALSE
    ELSE IF Ord(Head(a)) < Ord(Head(b)) THEN TRUE
    ELSE IF Ord(Head(a)) > Ord(Head(b)) THEN FALSE
    ELSE StrLess(Tail(a), Tail(b))

StartsWith(s, pre) ==
    /\ Len(s) >= Len(pre)
    /\ SubSeq(s, 1, Len(pre)) = pre

\* str.replace(old, new): every non-overlapping occurrence, left to right
RECURSIVE StrReplace(_, _, _)
StrReplace(s, old, new) ==
    IF s = <<>> THEN <<>>
    ELSE IF old # <<>> /\ StartsWith(s, old)
         THEN new \o StrReplace(SubSeq(s, Len(old) + 1, Len(s)), old, new)
    ELSE <<Head(s)>> \o StrReplace(Tail(s), old, new)

PrefixUpdate == <<"u", "p", "d", "a", "t", "e", "-">>
SuffixPy == <<".", "p", "y">>

\* script_name.replace('update-', '').replace('.py', '')
PkgOf(script_name) ==
    StrReplace(StrReplace(script_name, PrefixUpdate, <<>>), SuffixPy, <<>>)

\* the script names of the model: update-a.py, update-b.py, update-B.py
ScriptA == PrefixUpdate \o <<"a">> \o SuffixPy
ScriptB == PrefixUpdate \o <<"b">> \o SuffixPy
ScriptUpperB == PrefixUpdate \o <<"B">> \o SuffixPy
ScriptZ == PrefixUpdate \o <<"z">> \o SuffixPy
Names == {ScriptA, ScriptB, ScriptUpperB}
Packages == {PkgOf(n) : n \in Names \cup {ScriptZ}}

----------------------------------------------------------------------------
(* parse_script_output *)

UpdatedTokens == {"ut", "uf", "un"}
Tokens ==
    {"{", "}", "ut", "uf", "ver", "nl", "x", "uptodate", "Updated", "ucs"}

NoMatch == <<>>

Positions(output, tok) == {i \in 1..Len(output) : output[i] = tok}
SetMin(S) == CHOOSE i \in S : \A j \in S : i <= j
SetMax(S) == CHOOSE i \in S : \A j \in S : i >= j

\* re.search(r'\{.*"updated"\s*:\s*(true|false|null).*\}', output, re.DOTALL)
\* and match.group(0): with greedy .* matching line breaks too, the leftmost
\* match starts at the first "{" and runs to the last "}" of the output,
\* provided an "updated": true|false|null stands between them.
RegexSearch(output) ==
    LET opens == Positions(output, "{")
        closes == Positions(output, "}")
    IN  IF opens = {} \/ closes = {} THEN NoMatch
        ELSE LET first == SetMin(opens)
                 last == SetMax(closes)
             IN  IF \E k \in (first + 1)..(last - 1) :
                        output[k] \in UpdatedTokens
                 THEN SubSeq(output, first, last)
                 ELSE NoMatch

DropNewlines(s) == SelectSeq(s, LAMBDA t : t # "nl")

JSONDecodeError == [ok |-> FALSE, updated |-> "absent", version |-> ""]

\* json.loads on a token text: the texts over the model's tokens that are
\* valid JSON are the objects {}, {"updated": v} and
\* {"updated": v, "version": "1.2.3"}, with any line breaks as whitespace.
JsonLoads(text) ==
    LET t == DropNewlines(text)
        Val(tok) == CASE tok = "ut" -> "true" [] tok = "uf" -> "false"
                      [] tok = "un" -> "null"
    IN  IF t = <<"{", "}">>
        THEN [ok |-> TRUE, updated |-> "absent", version |-> ""]
        ELSE IF Len(t) = 3 /\ t[1] = "{" /\ t[2] \in UpdatedTokens /\ t[3] = "}"
        THEN [ok |-> TRUE, updated |-> Val(t[2]), version |-> ""]
        ELSE IF /\ Len(t) = 4 /\ t[1] = "{" /\ t[2] \in UpdatedTokens
                /\ t[3] = "ver" /\ t[4] = "}"
        THEN [ok |-> TRUE, updated |-> Val(t[2]), version |-> "1.2.3"]
        ELSE JSONDecodeError

\* isinstance(parsed, dict) and 'updated' in parsed
HasUpdatedKey(parsed) == parsed.ok /\ parsed.updated # "absent"

\* bool(parsed.get('updated'))
BoolOfUpdated(parsed) == parsed.updated = "true"

\* [ln.strip() for ln in output.strip().splitlines() if ln.strip()]
RECURSIVE SplitLines(_, _)
SplitLines(output, cur) ==
    IF output = <<>> THEN (IF cur = <<>> THEN <<>> ELSE <<cur>>)
    ELSE IF Head(output) = "nl"
         THEN (IF cur = <<>> THEN <<>> ELSE <<cur>>)
              \o SplitLines(Tail(output), <<>>)
    ELSE SplitLines(Tail(output), Append(cur, Head(output)))

NonEmptyLines(output) == SplitLines(output, <<>>)

TailLines == 10

\* lines[-10:]
LastLines(lines) ==
    IF Len(lines) <= TailLines THEN lines
    ELSE SubSeq(lines, Len(lines) - TailLines + 1, Len(lines))

NoPayload == [found |-> FALSE, updated |-> FALSE, version |-> ""]

\* the loop over reversed(lines[-10:]): k runs from the last line backwards
RECURSIVE LineFallback(_, _)
LineFallback(lines, k) ==
    IF k < 1 THEN NoPayload
    ELSE LET ln == lines[k]
         IN  IF Head(ln) = "{" /\ ln[Len(ln)] = "}" /\ Len(ln) >= 2
                /\ HasUpdatedKey(JsonLoads(ln))
             THEN [found |-> TRUE, updated |-> BoolOfUpdated(JsonLoads(ln)),
                   version |-> JsonLoads(ln).version]
             ELSE LineFallback(lines, k - 1)

\* the two structured searches of parse_script_output (lines 251-281):
\* the value of structured_updated (found = FALSE stands for None) and the
\* version string that primes the cache ("" when none does)
StructuredPayload(output) ==
    LET m == RegexSearch(output)
        viaRegex ==
            IF m # NoMatch /\ HasUpdatedKey(JsonLoads(m))
            THEN [found |-> TRUE, updated |-> BoolOfUpdated(JsonLoads(m)),
                  version |-> JsonLoads(m).version]
            ELSE NoPayload
        lines == LastLines(NonEmptyLines(output))
    IN  IF viaRegex.found THEN viaRegex
        ELSE LineFallback(lines, Len(lines))

\* 'kw' in output.lower() for the keywords of the heuristic
HasText(output, toks) == \E i \in 1..Len(output) : output[i] \in toks

\* a keyword test without .lower(): the capitalised keywords are missed
HeuristicUpdatedCaseSensitive(output) == HasText(output, UpdatedTokens)

HeuristicUpdated(output) ==
    HasText(output, {"ucs"}) \/ HasText(output, {"Updated"} \cup UpdatedTokens)

HeuristicNoUpdate(output) == HasText(output, {"noupd", "uptodate"})

\* the value returned by parse_script_output: <<updated, no_update_needed>>
ParseVerdict(output, prefer) ==
    LET sp == StructuredPayload(output)
    IN  IF sp.found THEN <<sp.updated, ~sp.updated>>
        ELSE IF prefer THEN <<FALSE, FALSE>>
        ELSE <<HeuristicUpdated(output), HeuristicNoUpdate(output)>>

\* MANIFEST_VERSION_CACHE after parse_script_output(output, script_name)
ParseCache(cache, output, script_name) ==
    LET sp == StructuredPayload(output)
    IN  IF sp.found /\ sp.version # ""
        THEN [cache EXCEPT ![PkgOf(script_name)] = sp.version]
        ELSE cache

\* "absent" marks a package that has no entry in the cache
EmptyCache == [p \in Packages |-> "absent"]

----------------------------------------------------------------------------
(* UpdateResult and run_update_script *)

NoneResult ==
    [kind |-> "None", script_name |-> <<>>, success |-> FALSE,
     updated |-> FALSE, exec_no |-> 0]

UpdateResult(script_name, success, updated, exec_no) ==
    [kind |-> "UpdateResult", script_name |-> script_name,
     success |-> success, updated |-> updated, exec_no |-> exec_no]

\* the outputs a task of the execution strategies may print
TaskOutputs == {<<"{", "ut", "ver", "}">>, <<"uptodate">>}

\* what one execution of a script does: the child exits with code 0 or with
\* another code after printing output, or subprocess.run raises
\* TimeoutExpired or another exception
Outcomes ==
    [kind : {"exit0", "nonzero"}, output : TaskOutputs]
        \cup [kind : {"timeout", "error"}, output : {<<>>}]

\* a result that carries the verdict of the parser whatever the exit code
RunUpdateScriptKeepsVerdict(script_name, outcome, prefer, n) ==
    UpdateResult(script_name, outcome.kind = "exit0",
                 ParseVerdict(outcome.output, prefer)[1], n)

\* the value returned by run_update_script for the n-th execution
RunUpdateScript(script_name, outcome, prefer, n) ==
    IF outcome.kind = "exit0"
    THEN UpdateResult(script_name, TRUE,
                      ParseVerdict(outcome.output, prefer)[1], n)
    ELSE UpdateResult(script_name, FALSE, FALSE, n)

\* MANIFEST_VERSION_CACHE after that execution: the output is parsed (line
\* 320) whenever the child has exited, whatever its exit code
CacheAfterRun(cache, outcome, script_name) ==
    IF outcome.kind \in {"exit0", "nonzero"}
    THEN ParseCache(cache, outcome.output, script_name)
    ELSE cache

----------------------------------------------------------------------------
(* run_update_script_with_retry *)

BackoffCap == 30

\* backoff = min(30, 2 ** attempt)
Backoff(att) == Min(BackoffCap, Pow2(att))

\* a loop that gives up one attempt early
LoopGuardStrict(att, r) == att < r

\* while attempt <= retries
LoopGuard(att, r) == att <= r

\* if attempt <= retries (line 364)
SleepGuard(att, r) == att <= r

\* local state of the wrapper on entry (lines 356-357)
RetryEntry(cache) ==
    [attempt |-> 0, last_result |-> NoneResult, execs |-> <<>>,
     sleeps |-> <<>>, cache |-> cache]

\* The loop of lines 358-369 from local state st: the value returned, the
\* results of the executions made, the arguments of the time.sleep calls
\* and the cache afterwards. stream[n] is what the n-th execution does.
RECURSIVE RetryLoop(_, _, _, _, _)
RetryLoop(script_name, r, prefer, stream, st) ==
    IF ~LoopGuard(st.attempt, r)
    THEN [ret |-> st.last_result, execs |-> st.execs, sleeps |-> st.sleeps,
          cache |-> st.cache]
    ELSE LET n == Len(st.execs) + 1
             result == RunUpdateScript(script_name, stream[n], prefer, n)
             cache1 == CacheAfterRun(st.cache, stream[n], script_name)
         IN  IF result.success
             THEN [ret |-> result, execs |-> Append(st.execs, result),
                   sleeps |-> st.sleeps, cache |-> cache1]
             ELSE RetryLoop(script_name, r, prefer, stream,
                     [attempt |-> st.attempt + 1,
                      last_result |-> result,
                      execs |-> Append(st.execs, result),
                      sleeps |-> IF SleepGuard(st.attempt + 1, r)
                                 THEN Append(st.sleeps,
                                             Backoff(st.attempt + 1))
                                 ELSE st.sleeps,
                      cache |-> cache1])

RunWithRetry(script_name, r, prefer, stream, cache) ==
    RetryLoop(script_name, r, prefer, stream, RetryEntry(cache))

\* the streams a strategy draws from: one outcome for each execution the
\* wrapper can make with r retries
StreamsFor(r) == [1..(Max(r, 0) + 1) -> Outcomes]

\* what a call of the wrapper by a strategy can do
RetryRuns(script_name, r, prefer, cache) ==
    {RunWithRetry(script_name, r, prefer, stream, cache) :
        stream \in StreamsFor(r)}

Slots == 1..(Max(MaxTasks, MaxParTasks))

\* a call of the wrapper on its own
RetryCall ==
    /\ r_pc = "call"
    /\ \E run \in {RunWithRetry(r_script, retries, PREFER_STRUCTURED_OUTPUT,
                                r_stream, MANIFEST_VERSION_CACHE)} :
           /\ r_ret' = run.ret
           /\ r_sleeps' = run.sleeps
           /\ execs' = [execs EXCEPT ![1] = run.execs]
           /\ MANIFEST_VERSION_CACHE' = run.cache
    /\ r_pc' = "returned"
    /\ UNCHANGED <<retries, r_script, r_stream>>
    /\ UNCHANGED PREFER_STRUCTURED_OUTPUT
    /\ UNCHANGED <<parseVars, seqVars, parVars, resumeVars>>
    /\ UNCHANGED restVars

IdleRetry ==
    /\ r_script = <<>>
    /\ r_stream = <<>>
    /\ r_pc = "idle"
    /\ r_ret = NoneResult
    /\ r_sleeps = <<>>
    /\ execs = [c \in Slots |-> <<>>]

----------------------------------------------------------------------------
(* run_sequential *)

\* a stop that forgets fail_fast
StopOnMaxFailOnly(ff, mf, nfail) == mf # 0 /\ nfail >= mf

\* a stop that forgets to compare the failures with max_fail
StopOnAnyLimit(ff, mf, nfail) == ff \/ mf # 0

\* a stop that comes one failure late
StopPastMaxFail(ff, mf, nfail) == ff \/ (mf # 0 /\ nfail > mf)

\* fail_fast or (max_fail and failures >= max_fail)
StopCondition(ff, mf, nfail) == ff \/ (mf # 0 /\ nfail >= mf)

\* One iteration of the loop of lines 398-407 for scripts[s_i].
SeqIter ==
    /\ s_pc = "loop"
    /\ s_i <= Len(scripts)
    /\ \E run \in RetryRuns(scripts[s_i], retries,
                      PREFER_STRUCTURED_OUTPUT, MANIFEST_VERSION_CACHE) :
        LET result == run.ret
        IN  /\ MANIFEST_VERSION_CACHE' = run.cache
            /\ execs' = [execs EXCEPT ![s_i] = run.execs]
            /\ s_results' = Append(s_results, result)
            /\ IF result.kind = "None"
               THEN \* result.success raises AttributeError
                    /\ s_pc' = "raised"
                    /\ UNCHANGED <<failures, s_i, s_broke, s_slept>>
               ELSE IF ~result.success
                       /\ StopCondition(fail_fast, max_fail, failures + 1)
               THEN \* break
                    /\ failures' = failures + 1
                    /\ s_broke' = TRUE
                    /\ s_pc' = "done"
                    /\ UNCHANGED <<s_i, s_slept>>
               ELSE /\ failures' = IF result.success THEN failures
                                   ELSE failures + 1
                    /\ s_slept' = IF delay > 0 THEN s_slept + delay
                                  ELSE s_slept
                    /\ s_i' = s_i + 1
                    /\ UNCHANGED <<s_pc, s_broke>>
    /\ UNCHANGED <<scripts, fail_fast, max_fail, delay>>
    /\ UNCHANGED <<retries, r_script, r_stream, r_pc, r_ret, r_sleeps>>
    /\ UNCHANGED PREFER_STRUCTURED_OUTPUT
    /\ UNCHANGED <<parseVars, parVars, resumeVars>>
    /\ UNCHANGED restVars

\* the task list is exhausted: return results
SeqReturn ==
    /\ s_pc = "loop"
    /\ s_i > Len(scripts)
    /\ s_pc' = "done"
    /\ UNCHANGED <<scripts, fail_fast, max_fail, delay, s_i, s_results,
                   failures, s_broke, s_slept>>
    /\ UNCHANGED <<globalVars, parseVars, retryVars, parVars, resumeVars>>
    /\ UNCHANGED restVars

IdleSeq ==
    /\ scripts = <<>>
    /\ fail_fast = FALSE
    /\ max_fail = 0
    /\ delay = 0
    /\ s_pc = "idle"
    /\ s_i = 1
    /\ s_results = <<>>
    /\ failures = 0
    /\ s_broke = FALSE
    /\ s_slept = 0

----------------------------------------------------------------------------
(* run_parallel *)

Providers == {"github", "microsoft", "google", "other"}
LimitedProviders == {"github", "microsoft", "google"}

\* max_workers = max(1, min(max_workers, len(scripts)))
CapWorkers(mw, n) == Max(1, Min(mw, n))

\* semaphores that ignore the limits of the providers
SemaphoreUnlimited(prov, limits, mw) == Max(1, mw)

\* semaphores of min(limit, max_workers) slots, which may be none
SemaphoreUncapped(prov, limits, mw) ==
    IF prov \in LimitedProviders THEN Min(limits[prov], mw) ELSE mw

\* the initial value of the BoundedSemaphore of a provider
SemaphoreValue(prov, limits, mw) ==
    IF prov \in LimitedProviders THEN Max(1, Min(limits[prov], mw))
    ELSE Max(1, mw)

\* sems.get(prov, sems['other'])
SemOf(prov) == IF prov \in Providers THEN prov ELSE "other"

\* prov_map.get(script_path, 'other')
ProvOf(i) == prov_map[scripts[i]]

TaskIds == 1..Len(scripts)

\* the pool threads that are executing _task
Busy == {i \in TaskIds : t_pc[i] \in {"sleeping", "acquire", "running"}}

\* the tasks that hold the semaphore of provider prov
Holding(prov) ==
    {i \in TaskIds : t_pc[i] = "running" /\ SemOf(ProvOf(i)) = prov}

\* a point in time as its distance from the clock
Ahead(t) == Max(t, 0)

\* time.sleep(min(circuit_sleep, until - now)), until - now being `left`
PauseSleep(sleep, left) == Min(sleep, left)

\* A free pool thread takes the oldest queued task and runs _task up to the
\* circuit-breaker check (lines 447-450).
TaskStart(i) ==
    /\ m_pc = "running"
    /\ t_pc[i] = "queued"
    /\ \A j \in TaskIds : j < i => t_pc[j] # "queued"
    /\ Cardinality(Busy) < max_workers
    /\ LET left == prov_paused_until[ProvOf(i)]
       IN  IF left > 0
           THEN \* until is set and now < until
                /\ t_pc' = [t_pc EXCEPT ![i] = "sleeping"]
                /\ t_wake' = [t_wake EXCEPT ![i] =
                                  Ahead(PauseSleep(circuit_sleep, left))]
           ELSE /\ t_pc' = [t_pc EXCEPT ![i] = "acquire"]
                /\ UNCHANGED t_wake
    /\ UNCHANGED <<max_workers_arg, workers_arg, circuit_threshold,
                   circuit_sleep, prov_map, max_workers, sems,
                   prov_paused_until, prov_failures, t_result, results, m_pc>>
    /\ UNCHANGED <<globalVars, parseVars, retryVars, seqVars, resumeVars>>
    /\ UNCHANGED restVars

\* time.sleep(min(circuit_sleep, until - now)) is over
TaskWake(i) ==
    /\ t_pc[i] = "sleeping"
    /\ t_wake[i] = 0
    /\ t_pc' = [t_pc EXCEPT ![i] = "acquire"]
    /\ UNCHANGED <<max_workers_arg, workers_arg, circuit_threshold,
                   circuit_sleep, prov_map, max_workers, sems,
                   prov_paused_until, prov_failures, t_wake, t_result,
                   results, m_pc>>
    /\ UNCHANGED <<globalVars, parseVars, retryVars, seqVars, resumeVars>>
    /\ UNCHANGED restVars

\* with sems.get(prov, sems['other']): the semaphore is acquired
TaskAcquire(i) ==
    /\ t_pc[i] = "acquire"
    /\ sems[SemOf(ProvOf(i))] > 0
    /\ sems' = [sems EXCEPT ![SemOf(ProvOf(i))] = @ - 1]
    /\ t_pc' = [t_pc EXCEPT ![i] = "running"]
    /\ UNCHANGED <<max_workers_arg, workers_arg, circuit_threshold,
                   circuit_sleep, prov_map, max_workers, prov_paused_until,
                   prov_failures, t_wake, t_result, results, m_pc>>
    /\ UNCHANGED <<globalVars, parseVars, retryVars, seqVars, resumeVars>>
    /\ UNCHANGED restVars

\* a with block that keeps the slot on the way out
ReleaseSlotNever(s, prov) == s

\* the end of `with sems.get(prov, sems['other']):` (line 452): the slot is
\* given back however the block is left
ReleaseSlot(s, prov) == [s EXCEPT ![prov] = @ + 1]

\* The retry wrapper runs and returns inside the with block, the semaphore
\* is released, _task returns and the future is done (lines 452-453).
TaskFinish(i) ==
    /\ t_pc[i] = "running"
    /\ \E run \in RetryRuns(scripts[i], retries,
                      PREFER_STRUCTURED_OUTPUT, MANIFEST_VERSION_CACHE) :
        /\ MANIFEST_VERSION_CACHE' = run.cache
        /\ execs' = [execs EXCEPT ![i] = run.execs]
        /\ t_result' = [t_result EXCEPT ![i] = run.ret]
    /\ sems' = ReleaseSlot(sems, SemOf(ProvOf(i)))
    /\ t_pc' = [t_pc EXCEPT ![i] = "finished"]
    /\ UNCHANGED <<max_workers_arg, workers_arg, circuit_threshold,
                   circuit_sleep, prov_map, max_workers, prov_paused_until,
                   prov_failures, t_wake, results, m_pc>>
    /\ UNCHANGED <<retries, r_script, r_stream, r_pc, r_ret, r_sleeps>>
    /\ UNCHANGED PREFER_STRUCTURED_OUTPUT
    /\ UNCHANGED <<parseVars, seqVars, resumeVars>>
    /\ UNCHANGED restVars

\* a breaker that pauses the provider and keeps counting
CircuitWithoutReset(count, until, threshold, sleep) ==
    IF threshold > 0 /\ count + 1 >= threshold
    THEN <<count + 1, Ahead(sleep)>>
    ELSE <<count + 1, until>>

\* the failure counter and the pause of a provider after one more failure
\* (lines 505-509): <<prov_failures[prov], prov_paused_until[prov]>>
CircuitAfterFailure(count, until, threshold, sleep) ==
    IF threshold > 0 /\ count + 1 >= threshold
    THEN <<0, Ahead(sleep)>>
    ELSE <<count + 1, until>>

\* The body of the as_completed loop for the done future of task i (lines
\* 498-513; the loop of lines 478-496 is the same with a progress bar).
MainProcess(i) ==
    /\ m_pc = "running"
    /\ t_pc[i] = "finished"
    /\ t_pc' = [t_pc EXCEPT ![i] = "processed"]
    /\ LET result == t_result[i]
           prov == ProvOf(i)
           after == CircuitAfterFailure(prov_failures[prov],
                        prov_paused_until[prov], circuit_threshold,
                        circuit_sleep)
       IN  IF result.kind = "None"
           THEN \* result.success raises AttributeError after the append;
                \* the handler appends a failed result
                /\ results' = results \o
                       <<result, UpdateResult(scripts[i], FALSE, FALSE, 0)>>
                /\ UNCHANGED <<prov_failures, prov_paused_until>>
           ELSE /\ results' = Append(results, result)
                /\ IF result.success
                   THEN UNCHANGED <<prov_failures, prov_paused_until>>
                   ELSE /\ prov_failures' =
                               [prov_failures EXCEPT ![prov] = after[1]]
                        /\ prov_paused_until' =
                               [prov_paused_until EXCEPT ![prov] = after[2]]
    /\ UNCHANGED <<max_workers_arg, workers_arg, circuit_threshold,
                   circuit_sleep, prov_map, max_workers, sems, t_wake,
                   t_result, m_pc>>
    /\ UNCHANGED <<globalVars, parseVars, retryVars, seqVars, resumeVars>>
    /\ UNCHANGED restVars

\* x.script_name < y.script_name
NameLess(x, y) == StrLess(x.script_name, y.script_name)

\* list.sort(key=lambda x: x.script_name): a stable sort, here by insertion
RECURSIVE InsertByName(_, _)
InsertByName(sorted, r) ==
    IF sorted = <<>> THEN <<r>>
    ELSE IF NameLess(r, Head(sorted)) THEN <<r>> \o sorted
    ELSE <<Head(sorted)>> \o InsertByName(Tail(sorted), r)

\* no sort: the results stay in completion order
KeepOrder(rs) == rs

RECURSIVE SortByName(_)
SortByName(rs) ==
    IF rs = <<>> THEN <<>>
    ELSE InsertByName(SortByName(SubSeq(rs, 1, Len(rs) - 1)), rs[Len(rs)])

\* Every future has been handled: the pool is shut down, the results are
\* sorted and returned (lines 515-516). A None among the results has no
\* script_name: the sort raises AttributeError.
MainReturn ==
    /\ m_pc = "running"
    /\ \A i \in TaskIds : t_pc[i] = "processed"
    /\ IF \E k \in 1..Len(results) : results[k].kind = "None"
       THEN /\ m_pc' = "raised"
            /\ UNCHANGED results
       ELSE /\ m_pc' = "done"
            /\ results' = SortByName(results)
    /\ UNCHANGED <<max_workers_arg, workers_arg, circuit_threshold,
                   circuit_sleep, prov_map, max_workers, sems,
                   prov_paused_until, prov_failures, t_pc, t_wake, t_result>>
    /\ UNCHANGED <<globalVars, parseVars, retryVars, seqVars, resumeVars>>
    /\ UNCHANGED restVars

\* One unit of time passes: every pending point in time comes one unit
\* closer. The clock is read only to compare it with the pause of a
\* provider or with the end of a sleep, so time matters only while one of
\* them is pending.
Tick ==
    /\ m_pc = "running"
    /\ \/ \E i \in TaskIds : t_pc[i] = "sleeping" /\ t_wake[i] > 0
       \/ \E prov \in Providers : prov_paused_until[prov] > 0
    /\ t_wake' = [i \in TaskIds |-> Ahead(t_wake[i] - 1)]
    /\ prov_paused_until' =
           [prov \in Providers |-> Ahead(prov_paused_until[prov] - 1)]
    /\ UNCHANGED <<max_workers_arg, workers_arg, circuit_threshold,
                   circuit_sleep, prov_map, max_workers, sems,
                   prov_failures, t_pc, t_result, results, m_pc>>
    /\ UNCHANGED <<globalVars, parseVars, retryVars, seqVars, resumeVars>>
    /\ UNCHANGED restVars

IdlePar ==
    /\ max_workers_arg = 0
    /\ workers_arg = [p \in LimitedProviders |-> 0]
    /\ circuit_threshold = 0
    /\ circuit_sleep = 0
    /\ prov_map = <<>>
    /\ max_workers = 0
    /\ sems = [p \in Providers |-> 0]
    /\ prov_paused_until = [p \in Providers |-> 0]
    /\ prov_failures = [p \in Providers |-> 0]
    /\ t_pc = <<>>
    /\ t_wake = <<>>
    /\ t_result = <<>>
    /\ results = <<>>
    /\ m_pc = "idle"

----------------------------------------------------------------------------
(* filter_resume_paths *)

\* a record of the results array of a summary: script is <<>> and success is
\* "absent" when the key is missing
ResumeScripts == Names \cup {ScriptZ, <<>>}
ResumeItems == [script : ResumeScripts, success : {"true", "false", "absent"}]

\* a test that keeps the records of the tasks that succeeded
IsSucceededItem(item) == item.success = "true" /\ item.script # <<>>

\* not bool(item.get('success', False)) and item.get('script')
IsFailedItem(item) == item.success # "true" /\ item.script # <<>>

\* the set failed_scripts
FailedScripts(prev) ==
    {prev.results[k].script : k \in {j \in 1..Len(prev.results) :
                                        IsFailedItem(prev.results[j])}}

\* [p for p in script_paths if p.name in failed_scripts]
KeepFailed(paths, failed) == SelectSeq(paths, LAMBDA n : n \in failed)

\* the value returned by filter_resume_paths; a summary that cannot be read
\* or parsed raises, and the exception is swallowed
FilterResumePaths(paths, prev) ==
    IF ~prev.readable THEN paths
    ELSE IF FailedScripts(prev) # {} THEN KeepFailed(paths, FailedScripts(prev))
    ELSE paths

FilterCall ==
    /\ f_pc = "call"
    /\ f_ret' = FilterResumePaths(f_paths, f_prev)
    /\ f_pc' = "done"
    /\ UNCHANGED <<f_paths, f_prev>>
    /\ UNCHANGED <<globalVars, parseVars, retryVars, seqVars, parVars>>
    /\ UNCHANGED restVars

IdleResume ==
    /\ f_paths = <<>>
    /\ f_prev = [readable |-> FALSE, results |-> <<>>]
    /\ f_pc = "idle"
    /\ f_ret = <<>>

----------------------------------------------------------------------------
(* parse_script_output as an operation *)

ParseCall ==
    /\ p_pc = "call"
    /\ p_ret' = ParseVerdict(p_output, PREFER_STRUCTURED_OUTPUT)
    /\ MANIFEST_VERSION_CACHE' =
           ParseCache(MANIFEST_VERSION_CACHE, p_output, p_script)
    /\ p_pc' = "done"
    /\ UNCHANGED <<PREFER_STRUCTURED_OUTPUT, p_output, p_script>>
    /\ UNCHANGED <<retryVars, seqVars, parVars, resumeVars>>
    /\ UNCHANGED restVars

IdleParse ==
    /\ p_output = <<>>
    /\ p_script = <<>>
    /\ p_pc = "idle"
    /\ p_ret = <<FALSE, FALSE>>

----------------------------------------------------------------------------
(* get_manifest_version *)

\* what bucket/<app_name>.json can be: absent, larger than
\* MAX_MANIFEST_SIZE, not readable as a JSON object, or a manifest with the
\* given version ("" when it has no version key)
DiskStates == {"missing", "toolarge", "unreadable", "", "2.0.0"}

\* the version string a read of the manifest yields (lines 171-190)
ReadManifest(d) ==
    IF d \in {"missing", "toolarge", "unreadable"} THEN "" ELSE d

\* a test by truth value, which takes a stored miss for no entry
InCacheNonEmpty(cache, app_name) == cache[app_name] \notin {"absent", ""}

\* app_name in MANIFEST_VERSION_CACHE
InCache(cache, app_name) == cache[app_name] # "absent"

\* get_manifest_version(app_name): <<value returned, cache afterwards,
\* whether the manifest was read>>
GetManifestVersion(cache, app_name, d) ==
    IF InCache(cache, app_name)
    THEN <<cache[app_name], cache, FALSE>>
    ELSE <<ReadManifest(d), [cache EXCEPT ![app_name] = ReadManifest(d)],
           TRUE>>

\* the packages looked up and the outputs parsed in the model
CachePackages == {PkgOf(ScriptA), PkgOf(ScriptB)}
CacheOutputs == {<<"{", "ut", "ver", "}">>, <<"{", "uf", "}">>, <<"Updated">>}

\* a call of get_manifest_version
GetCall(app_name) ==
    /\ g_n < MaxCalls
    /\ LET r == GetManifestVersion(MANIFEST_VERSION_CACHE, app_name,
                                   disk[app_name])
       IN  /\ g_ret' = r[1]
           /\ MANIFEST_VERSION_CACHE' = r[2]
           /\ g_read' = r[3]
           /\ reads' = IF r[3] THEN [reads EXCEPT ![app_name] = @ + 1]
                       ELSE reads
    /\ g_pkg' = app_name
    /\ g_before' = MANIFEST_VERSION_CACHE[app_name]
    /\ g_n' = g_n + 1
    /\ UNCHANGED <<disk, PREFER_STRUCTURED_OUTPUT>>
    /\ UNCHANGED <<parseVars, retryVars, seqVars, parVars, resumeVars>>
    /\ UNCHANGED <<jsonVars, mainVars, lateVars>>

\* a call of parse_script_output between two lookups: it may prime the cache
PrimeCall(output, script_name) ==
    /\ g_n < MaxCalls
    /\ MANIFEST_VERSION_CACHE' =
           ParseCache(MANIFEST_VERSION_CACHE, output, script_name)
    /\ g_n' = g_n + 1
    /\ UNCHANGED <<disk, reads, g_pkg, g_before, g_ret, g_read>>
    /\ UNCHANGED PREFER_STRUCTURED_OUTPUT
    /\ UNCHANGED <<parseVars, retryVars, seqVars, parVars, resumeVars>>
    /\ UNCHANGED <<jsonVars, mainVars, lateVars>>

IdleCache ==
    /\ disk = [p \in Packages |-> "missing"]
    /\ reads = [p \in Packages |-> 0]
    /\ g_n = 0
    /\ g_pkg = <<>>
    /\ g_before = "absent"
    /\ g_ret = ""
    /\ g_read = FALSE

----------------------------------------------------------------------------
(* write_json_summary *)

NoFile == [written |-> FALSE]

\* counting every updated result, successful or not, as print_summary does
RECURSIVE CountUpdatedApart(_)
CountUpdatedApart(rs) ==
    IF rs = <<>> THEN [succ |-> 0, fail |-> 0, upd |-> 0, no_upd |-> 0]
    ELSE LET c == CountUpdatedApart(SubSeq(rs, 1, Len(rs) - 1))
             r == rs[Len(rs)]
         IN  [succ |-> c.succ + (IF r.success THEN 1 ELSE 0),
              fail |-> c.fail + (IF r.success THEN 0 ELSE 1),
              upd |-> c.upd + (IF r.updated THEN 1 ELSE 0),
              no_upd |-> c.no_upd
                           + (IF r.success /\ ~r.updated THEN 1 ELSE 0)]

\* the counting loop of lines 570-578
RECURSIVE CountPass(_)
CountPass(rs) ==
    IF rs = <<>> THEN [succ |-> 0, fail |-> 0, upd |-> 0, no_upd |-> 0]
    ELSE LET c == CountPass(SubSeq(rs, 1, Len(rs) - 1))
             r == rs[Len(rs)]
         IN  IF r.success
             THEN IF r.updated
                  THEN [c EXCEPT !.succ = @ + 1, !.upd = @ + 1]
                  ELSE [c EXCEPT !.succ = @ + 1, !.no_upd = @ + 1]
             ELSE [c EXCEPT !.fail = @ + 1]

\* the "counts" object of lines 591-597
Counts(rs) ==
    [total |-> Len(rs), successful |-> CountPass(rs).succ,
     failed |-> CountPass(rs).fail, updated |-> CountPass(rs).upd,
     no_updates |-> CountPass(rs).no_upd]

\* the loop of lines 600-610 from the given cache and read counters: the
\* records appended and the cache and counters after the lookups
RECURSIVE SummaryRecords(_, _, _, _)
SummaryRecords(rs, cache, rd, dsk) ==
    IF rs = <<>> THEN [records |-> <<>>, cache |-> cache, reads |-> rd]
    ELSE LET before == SummaryRecords(SubSeq(rs, 1, Len(rs) - 1), cache, rd,
                                      dsk)
             r == rs[Len(rs)]
             pkg == PkgOf(r.script_name)
             g == GetManifestVersion(before.cache, pkg, dsk[pkg])
         IN  [records |-> Append(before.records,
                  [script |-> r.script_name, package |-> pkg,
                   success |-> r.success, updated |-> r.updated,
                   version |-> g[1]]),
              cache |-> g[2],
              reads |-> IF g[3] THEN [before.reads EXCEPT ![pkg] = @ + 1]
                        ELSE before.reads]

\* args.json_summary is not given; or it is and the directory cannot be
\* made, the file cannot be written, or all goes well
JsonModes == {"unset", "mkdir_fails", "open_fails", "ok"}

\* write_json_summary(results, ...); every exception is caught and printed
WriteJsonSummary ==
    /\ j_pc = "call"
    /\ j_pc' = "done"
    /\ IF j_mode \in {"unset", "mkdir_fails"}
       THEN UNCHANGED <<MANIFEST_VERSION_CACHE, reads, j_file>>
       ELSE LET recs == SummaryRecords(j_results, MANIFEST_VERSION_CACHE,
                                       reads, disk)
            IN  /\ MANIFEST_VERSION_CACHE' = recs.cache
                /\ reads' = recs.reads
                /\ j_file' = IF j_mode = "ok"
                             THEN [written |-> TRUE,
                                   counts |-> Counts(j_results),
                                   results |-> recs.records]
                             ELSE j_file
    /\ UNCHANGED <<j_results, j_mode>>
    /\ UNCHANGED <<disk, g_n, g_pkg, g_before, g_ret, g_read>>
    /\ UNCHANGED PREFER_STRUCTURED_OUTPUT
    /\ UNCHANGED <<parseVars, retryVars, seqVars, parVars, resumeVars>>
    /\ UNCHANGED <<mainVars, lateVars>>

IdleJson ==
    /\ j_results = <<>>
    /\ j_mode = "unset"
    /\ j_pc = "idle"
    /\ j_file = NoFile

----------------------------------------------------------------------------
(* main, from the provider filters to the exit of the process *)

\* script_paths after `if args.only_providers:` (lines 918-921); a list
\* that was not given (None) is the empty set
OnlyProviders(paths, only, classes) ==
    IF only # {}
    THEN SelectSeq(paths, LAMBDA p : classes[p] \in only)
    ELSE paths

\* an exclude filter that keeps the listed categories
SkipProvidersKeepsListed(paths, skip, classes) ==
    IF skip # {}
    THEN SelectSeq(paths, LAMBDA p : classes[p] \in skip)
    ELSE paths

\* script_paths after `if args.skip_providers:` (lines 923-927)
SkipProviders(paths, skip, classes) ==
    IF skip # {}
    THEN SelectSeq(paths, LAMBDA p : classes[p] \notin skip)
    ELSE paths

\* a run that goes on with an empty plan
NoValidScriptsNever(paths) == FALSE

\* `if not script_paths:` (line 929)
NoValidScripts(paths) == paths = <<>>

\* what a strategy can return for the planned scripts: a result for each
\* of them, or for the first ones only when the strategy stopped at a
\* failure (fail_fast, max_fail); an updated result is a successful one
TaskResults(name) ==
    {UpdateResult(name, TRUE, TRUE, 1), UpdateResult(name, TRUE, FALSE, 1),
     UpdateResult(name, FALSE, FALSE, 1)}
StrategyResults(paths) ==
    {rs \in SeqsUpTo(UNION {TaskResults(paths[i]) : i \in DOMAIN paths},
                     Len(paths)) :
        /\ \A i \in DOMAIN rs : rs[i].script_name = paths[i]
        /\ Len(rs) < Len(paths) => Len(rs) > 0 /\ ~rs[Len(rs)].success}

\* the get_manifest_version calls for the packages pkgs, in order: the cache
\* and the read counters after them
RECURSIVE Lookups(_, _, _, _)
Lookups(pkgs, cache, rd, dsk) ==
    IF pkgs = <<>> THEN [cache |-> cache, reads |-> rd]
    ELSE LET before == Lookups(SubSeq(pkgs, 1, Len(pkgs) - 1), cache, rd, dsk)
             pkg == pkgs[Len(pkgs)]
             g == GetManifestVersion(before.cache, pkg, dsk[pkg])
         IN  [cache |-> g[2],
              reads |-> IF g[3] THEN [before.reads EXCEPT ![pkg] = @ + 1]
                        ELSE before.reads]

\* the packages of a list of results
RECURSIVE PkgsOf(_)
PkgsOf(rs) ==
    IF rs = <<>> THEN <<>>
    ELSE <<PkgOf(rs[1].script_name)>> \o PkgsOf(Tail(rs))

\* the packages print_summary looks up: the updated results, then the
\* successful results that are not updated (lines 535-559)
PrintSummaryPkgs(rs) ==
    PkgsOf(SelectSeq(rs, LAMBDA r : r.updated))
        \o PkgsOf(SelectSeq(rs, LAMBDA r : r.success /\ ~r.updated))

\* args.md_summary is not given, or it is and the file cannot be written
\* or can
MdModes == {"unset", "fails", "ok"}

\* the webhook is not configured, or every delivery fails, or one succeeds
WebhookModes == {"unset", "fails", "ok"}

\* a run that stops on a failure whatever args.no_error_exit
ExitOnFailureAlways(rs, no_error_exit) ==
    \E i \in DOMAIN rs : ~rs[i].success

\* failed_count > 0 and not args.no_error_exit (lines 1003-1004)
ExitOnFailure(rs, no_error_exit) ==
    /\ Cardinality({i \in DOMAIN rs : ~rs[i].success}) > 0
    /\ ~no_error_exit

\* git integration whatever args.skip_git
GitEnabledAlways(a) == TRUE

\* `if not args.skip_git:` (line 1008)
GitEnabled(a) == ~a.skip_git

\* what git and the working tree answer: whether the manifest of an updated
\* package exists, whether `git add` succeeds, whether the staged diff of a
\* manifest is non-empty, whether a manifest is untracked, and whether the
\* staged diff of the bucket lists added and updated manifests
GitEnvs ==
    [exists : BOOLEAN, add_ok : BOOLEAN, staged : BOOLEAN,
     untracked : BOOLEAN, added : BOOLEAN, updated : BOOLEAN]

\* push_changes(): nothing is pushed when SCOOP_GIT_DRY_RUN is 1, which
\* --git-dry-run sets (line 857)
PushChanges(a) == IF a.git_dry_run THEN <<>> ELSE <<"push">>

\* the git commands of stage_and_commit_per_package for n updated results
RECURSIVE StageAndCommitPerPackage(_, _)
StageAndCommitPerPackage(n, env) ==
    IF n = 0 THEN <<>>
    ELSE StageAndCommitPerPackage(n - 1, env)
         \o (IF ~env.exists THEN <<>>
             ELSE IF ~env.add_ok THEN <<"add">>
             ELSE IF ~env.staged THEN <<"add", "diff">>
             ELSE <<"add", "diff", "commit">>)

\* the untracked manifest the model lets git list, and the manifests of the
\* staged diff of the bucket
UntrackedApp == PkgOf(ScriptZ)
UpdatedApp == PkgOf(ScriptA)
AddedApp == PkgOf(ScriptZ)

\* the git commands of the per-package branch (lines 1013-1027)
PerPackageCommands(rs, a, env) ==
    LET updated_results == SelectSeq(rs, LAMBDA r : r.updated)
    IN  StageAndCommitPerPackage(Len(updated_results), env)
        \o <<"ls-files">>
        \o (IF ~env.untracked THEN <<>>
            ELSE IF ~env.add_ok THEN <<"add">>
            ELSE <<"add", "commit">>)
        \o PushChanges(a)

\* the packages looked up by the per-package branch
PerPackagePkgs(rs, env) ==
    (IF env.exists /\ env.add_ok /\ env.staged
     THEN PkgsOf(SelectSeq(rs, LAMBDA r : r.updated)) ELSE <<>>)
        \o (IF env.untracked /\ env.add_ok THEN <<UntrackedApp>> ELSE <<>>)

\* the git commands of the aggregate branch (lines 1029-1053)
AggregateCommands(a, env) ==
    <<"add", "diff">>
        \o (IF ~env.added /\ ~env.updated THEN <<>>
            ELSE (IF env.updated THEN <<"commit">> ELSE <<>>)
                 \o (IF env.added THEN <<"commit">> ELSE <<>>)
                 \o PushChanges(a))

\* the packages looked up by the aggregate branch
AggregatePkgs(env) ==
    (IF env.updated THEN <<UpdatedApp>> ELSE <<>>)
        \o (IF env.added THEN <<AddedApp>> ELSE <<>>)

\* args.git_per_package or not args.git_aggregate (line 1012)
PerPackageMode(a) == a.git_per_package \/ ~a.git_aggregate

mainOther == <<PREFER_STRUCTURED_OUTPUT, parseVars, retryVars, seqVars,
               parVars, resumeVars, lateVars>>

\* lines 917-931: the provider filters and the check of the plan
MainFilter ==
    /\ o_pc = "filter"
    /\ LET kept == SkipProviders(
                       OnlyProviders(script_paths, args.only_providers,
                                     provider_class),
                       args.skip_providers, provider_class)
       IN  /\ script_paths' = kept
           /\ IF NoValidScripts(kept)
              THEN o_pc' = "exited" /\ exit_code' = 1
              ELSE o_pc' = "plan" /\ UNCHANGED exit_code
    /\ UNCHANGED <<args, provider_class, paths_in, main_results, executed,
                   git_log, md_written, webhook_sent>>
    /\ UNCHANGED <<MANIFEST_VERSION_CACHE, cacheVars, jsonVars, mainOther>>

\* lines 933-960: the plan is printed; a dry run returns from main
MainPlan ==
    /\ o_pc = "plan"
    /\ IF args.dry_run
       THEN o_pc' = "exited" /\ exit_code' = 0
       ELSE o_pc' = "execute" /\ UNCHANGED exit_code
    /\ UNCHANGED <<args, provider_class, paths_in, script_paths,
                   main_results, executed, git_log, md_written,
                   webhook_sent>>
    /\ UNCHANGED <<MANIFEST_VERSION_CACHE, cacheVars, jsonVars, mainOther>>

\* lines 962-993: the strategy runs the plan and returns its results
MainExecute ==
    /\ o_pc = "execute"
    /\ \E rs \in StrategyResults(script_paths) :
           /\ main_results' = rs
           /\ executed' = {rs[i].script_name : i \in DOMAIN rs}
    /\ o_pc' = "report"
    /\ UNCHANGED <<args, provider_class, paths_in, script_paths, git_log,
                   md_written, webhook_sent, exit_code>>
    /\ UNCHANGED <<MANIFEST_VERSION_CACHE, cacheVars, jsonVars, mainOther>>

\* lines 995-1001: print_summary, write_json_summary, write_md_summary and
\* send_webhook_if_configured; each of the last three catches every
\* exception
MainReport ==
    /\ o_pc = "report"
    /\ \E jm \in JsonModes, mm \in MdModes, wm \in WebhookModes :
           LET printed == Lookups(PrintSummaryPkgs(main_results),
                                  MANIFEST_VERSION_CACHE, reads, disk)
               json == IF jm \in {"unset", "mkdir_fails"}
                       THEN [records |-> <<>>, cache |-> printed.cache,
                             reads |-> printed.reads]
                       ELSE SummaryRecords(main_results, printed.cache,
                                           printed.reads, disk)
               md == IF mm = "unset"
                     THEN [cache |-> json.cache, reads |-> json.reads]
                     ELSE Lookups(PkgsOf(main_results), json.cache,
                                  json.reads, disk)
           IN  /\ MANIFEST_VERSION_CACHE' = md.cache
               /\ reads' = md.reads
               /\ j_results' = main_results
               /\ j_mode' = jm
               /\ j_pc' = "done"
               /\ j_file' = IF jm = "ok"
                            THEN [written |-> TRUE,
                                  counts |-> Counts(main_results),
                                  results |-> json.records]
                            ELSE j_file
               /\ md_written' = (mm = "ok")
               \* the webhook posts the summary file it reads back
               /\ webhook_sent' = (wm = "ok" /\ jm = "ok")
    /\ o_pc' = "finish"
    /\ UNCHANGED <<args, provider_class, paths_in, script_paths,
                   main_results, executed, git_log, exit_code>>
    /\ UNCHANGED <<disk, g_n, g_pkg, g_before, g_ret, g_read>>
    /\ UNCHANGED mainOther

\* lines 1003-1058: the exit on failures, the git integration inside its
\* try/except, and sys.exit(0)
MainFinish ==
    /\ o_pc = "finish"
    /\ o_pc' = "exited"
    /\ IF ExitOnFailure(main_results, args.no_error_exit)
       THEN /\ exit_code' = 1
            /\ UNCHANGED <<git_log, MANIFEST_VERSION_CACHE, reads>>
       ELSE /\ exit_code' = 0
            /\ IF GitEnabled(args)
               THEN \E env \in GitEnvs :
                        LET looked ==
                                Lookups(IF PerPackageMode(args)
                                        THEN PerPackagePkgs(main_results, env)
                                        ELSE AggregatePkgs(env),
                                        MANIFEST_VERSION_CACHE, reads, disk)
                        IN  /\ git_log' =
                                   IF PerPackageMode(args)
                                   THEN PerPackageCommands(main_results,
                                                           args, env)
                                   ELSE AggregateCommands(args, env)
                            /\ MANIFEST_VERSION_CACHE' = looked.cache
                            /\ reads' = looked.reads
               ELSE UNCHANGED <<git_log, MANIFEST_VERSION_CACHE, reads>>
    /\ UNCHANGED <<args, provider_class, paths_in, script_paths,
                   main_results, executed, md_written, webhook_sent>>
    /\ UNCHANGED <<disk, g_n, g_pkg, g_before, g_ret, g_read>>
    /\ UNCHANGED <<jsonVars, mainOther>>

NoArgs ==
    [only_providers |-> {}, skip_providers |-> {}, dry_run |-> FALSE,
     no_error_exit |-> FALSE, skip_git |-> FALSE, git_per_package |-> FALSE,
     git_aggregate |-> FALSE, git_dry_run |-> FALSE]

IdleMain ==
    /\ args = NoArgs
    /\ provider_class = <<>>
    /\ paths_in = <<>>
    /\ script_paths = <<>>
    /\ o_pc = "idle"
    /\ main_results = <<>>
    /\ executed = {}
    /\ git_log = <<>>
    /\ md_written = FALSE
    /\ webhook_sent = FALSE
    /\ exit_code = "none"

----------------------------------------------------------------------------
(* run_parallel: the as_completed loop statement by statement *)

\* a loop that goes on without the lock
WithoutLock(thread) == "free"

\* `with lock:` entered by a thread (line 505)
WithLock(thread) == thread

\* the main thread is between two statements of the loop body for a future
Handling == {i \in TaskIds : t_pc[i] \in {"locking", "locked", "counted"}}

lockOther == <<globalVars, parseVars, retryVars, seqVars, resumeVars,
               cacheVars, jsonVars, mainVars, gitVars, classVars>>

\* lines 499-503: the next done future is taken, its result appended and
\* its success tested; a None result raises AttributeError at the test and
\* the handler of lines 511-513 appends a failed result
LoopTake(i) ==
    /\ m_pc = "running"
    /\ Handling = {}
    /\ t_pc[i] = "finished"
    /\ LET result == t_result[i]
       IN  IF result.kind = "None"
           THEN /\ results' = results \o
                       <<result, UpdateResult(scripts[i], FALSE, FALSE, 0)>>
                /\ t_pc' = [t_pc EXCEPT ![i] = "processed"]
           ELSE /\ results' = Append(results, result)
                /\ t_pc' = [t_pc EXCEPT ![i] =
                               IF result.success THEN "processed"
                               ELSE "locking"]
    /\ UNCHANGED <<max_workers_arg, workers_arg, circuit_threshold,
                   circuit_sleep, prov_map, max_workers, sems,
                   prov_paused_until, prov_failures, t_wake, t_result, m_pc>>
    /\ UNCHANGED <<lockVars, lockOther>>

\* line 505: the main thread takes the lock
LoopLock(i) ==
    /\ t_pc[i] = "locking"
    /\ lock = "free"
    /\ lock' = WithLock("main")
    /\ t_pc' = [t_pc EXCEPT ![i] = "locked"]
    /\ UNCHANGED <<max_workers_arg, workers_arg, circuit_threshold,
                   circuit_sleep, prov_map, max_workers, sems,
                   prov_paused_until, prov_failures, t_wake, t_result,
                   results, m_pc>>
    /\ UNCHANGED <<increments, lockOther>>

\* lines 506-509: the counter is incremented and, at the threshold, the
\* provider is paused and the counter reset
LoopCount(i) ==
    /\ t_pc[i] = "locked"
    /\ LET prov == ProvOf(i)
           after == CircuitAfterFailure(prov_failures[prov],
                        prov_paused_until[prov], circuit_threshold,
                        circuit_sleep)
       IN  /\ prov_failures' = [prov_failures EXCEPT ![prov] = after[1]]
           /\ prov_paused_until' =
                  [prov_paused_until EXCEPT ![prov] = after[2]]
           /\ increments' = [increments EXCEPT ![prov] = @ + 1]
    /\ t_pc' = [t_pc EXCEPT ![i] = "counted"]
    /\ UNCHANGED <<max_workers_arg, workers_arg, circuit_threshold,
                   circuit_sleep, prov_map, max_workers, sems, t_wake,
                   t_result, results, m_pc>>
    /\ UNCHANGED <<lock, lockOther>>

\* the end of the with block: the lock is released
LoopUnlock(i) ==
    /\ t_pc[i] = "counted"
    /\ lock' = "free"
    /\ t_pc' = [t_pc EXCEPT ![i] = "processed"]
    /\ UNCHANGED <<max_workers_arg, workers_arg, circuit_threshold,
                   circuit_sleep, prov_map, max_workers, sems,
                   prov_paused_until, prov_failures, t_wake, t_result,
                   results, m_pc>>
    /\ UNCHANGED <<increments, lockOther>>

IdleLock ==
    /\ lock = "free"
    /\ increments = [p \in Providers |-> 0]

----------------------------------------------------------------------------
(* classify_provider *)

MICROSOFT_DOMAINS == {"learn.microsoft.com", "go.microsoft.com",
                      "download.microsoft.com", "visualstudio.microsoft.com"}
GOOGLE_DOMAINS == {"googleapis.com", "storage.googleapis.com",
                   "dl.google.com", "cloudfront.net"}

\* the pieces of text the files of the model are made of, and the domains
\* that are substrings of each piece
Pieces == {"x", "api.github.com", "go.microsoft.com",
           "storage.googleapis.com", "cloudfront.net"}
DomainsIn(piece) ==
    CASE piece = "api.github.com" -> {"github.com", "api.github.com"}
      [] piece = "go.microsoft.com" -> {"go.microsoft.com"}
      [] piece = "storage.googleapis.com" ->
            {"googleapis.com", "storage.googleapis.com"}
      [] piece = "cloudfront.net" -> {"cloudfront.net"}
      [] OTHER -> {}

\* `x in content`
OccursIn(domain, content) ==
    \E k \in DOMAIN content : domain \in DomainsIn(content[k])

\* the number of pieces f.read(4000) returns
ReadPieces == 2

\* a read of the whole file
ReadAll(text) == text

\* f.read(4000) (line 383)
ReadPrefix(text) == SubSeq(text, 1, Min(Len(text), ReadPieces))

\* dict.get(key), None when the key is absent
MapGet(map, key) == IF key \in DOMAIN map THEN map[key] ELSE "absent"

\* the truth value of what dict.get returns
Truthy(v) == v \notin {"absent", ""}

\* classify_provider (lines 371-393); an unreadable file raises in open
\* or in read, and the handler passes
ClassifyProvider(name, map, file) ==
    LET pkg == PkgOf(name)
        mapped == IF Truthy(MapGet(map, name)) THEN MapGet(map, name)
                  ELSE MapGet(map, pkg)
    IN  IF Truthy(mapped) THEN mapped
        ELSE IF ~file.readable THEN "other"
        ELSE LET content == ReadPrefix(file.text)
             IN  IF \/ OccursIn("github.com", content)
                    \/ OccursIn("api.github.com", content)
                 THEN "github"
                 ELSE IF \E x \in MICROSOFT_DOMAINS : OccursIn(x, content)
                 THEN "microsoft"
                 ELSE IF \E x \in GOOGLE_DOMAINS : OccursIn(x, content)
                 THEN "google"
                 ELSE "other"

classOther == <<globalVars, parseVars, retryVars, seqVars, parVars,
                resumeVars, cacheVars, jsonVars, mainVars, lockVars,
                gitVars>>

ClassifyCall ==
    /\ c_pc = "call"
    /\ c_ret' = ClassifyProvider(c_path, provider_map, c_file)
    /\ c_pc' = "done"
    /\ UNCHANGED <<c_path, provider_map, c_file, classOther>>

\* the next script of the dictionary comprehension of line 428
ClassifyAgain ==
    /\ c_pc = "done"
    /\ c_pc' = "call"
    /\ c_ret' = "none"
    /\ \E name \in {ScriptA, ScriptB} : c_path' = name
    /\ UNCHANGED <<provider_map, c_file, classOther>>

IdleClass ==
    /\ c_path = <<>>
    /\ provider_map = <<>>
    /\ c_file = [readable |-> FALSE, text |-> <<>>]
    /\ c_pc = "idle"
    /\ c_ret = "none"

----------------------------------------------------------------------------
(* main: the git block command by command, over a repository *)

\* the manifests of the bucket, in the order git lists them
GitNames == <<ScriptA, ScriptB, ScriptZ>>
GitOrder == <<PkgOf(ScriptA), PkgOf(ScriptB), PkgOf(ScriptZ)>>
Manifests == {GitOrder[k] : k \in DOMAIN GitOrder}
Bucket == <<"bucket">>
NoPath == <<>>

\* the manifests of a set, sorted
Listed(S) == SelectSeq(GitOrder, LAMBDA m : m \in S)

\* one git command in the log
GitOp(cmd, path, rc, out) == [cmd |-> cmd, path |-> path, rc |-> rc, out |-> out]

\* git add of a set of paths: a modified manifest is staged as M, a new one
\* as A, an unchanged or an already staged one is left as it is
GitAdd(idx, wt, paths) ==
    [m \in Manifests |->
        IF m \in paths /\ idx[m] = "-"
        THEN (IF wt[m] = "modified" THEN "M"
              ELSE IF wt[m] = "untracked" THEN "A" ELSE "-")
        ELSE idx[m]]

\* the manifests that are staged
Staged(idx) == {m \in Manifests : idx[m] # "-"}

\* git commit -m: the commit takes the whole index; with an empty index git
\* answers "nothing to commit" and exits with 1 (commit_with_message,
\* lines 139-150)
CommitWithMessage(subject, ok) ==
    LET created == ok /\ Staged(index) # {}
    IN  /\ git_ops' = Append(git_ops,
               GitOp("commit", subject, IF created THEN 0 ELSE 1, "-"))
        /\ commits' = IF created
                      THEN Append(commits, [subject |-> subject,
                                            files |-> Staged(index)])
                      ELSE commits
        /\ index' = IF created THEN [m \in Manifests |-> "-"] ELSE index
        /\ worktree' = IF created
                       THEN [m \in Manifests |->
                               IF index[m] # "-" THEN "clean"
                               ELSE worktree[m]]
                       ELSE worktree

\* get_manifest_version called for the packages of a commit message
LookupFor(pkgs) ==
    LET looked == Lookups(pkgs, MANIFEST_VERSION_CACHE, reads, disk)
    IN  /\ MANIFEST_VERSION_CACHE' = looked.cache
        /\ reads' = looked.reads

\* a diff that is never found empty
HasStagedChangesAlways(ns_out) == TRUE

\* `if not ns_out.strip()` of line 221, negated
HasStagedChanges(ns_out) == ns_out # "-"

gitFrame == <<PREFER_STRUCTURED_OUTPUT, parseVars, retryVars, seqVars,
              parVars, resumeVars, jsonVars, lockVars, classVars, mainVars,
              disk, g_n, g_pkg, g_before, g_ret, g_read>>

\* line 1012: the branch is chosen; line 1013: the updated results
GitBegin ==
    /\ git_pc = "start"
    /\ IF PerPackageMode(args)
       THEN /\ todo' = PkgsOf(SelectSeq(main_results, LAMBDA r : r.updated))
            /\ git_pc' = "pkg"
       ELSE /\ todo' = <<>>
            /\ git_pc' = "agg_add"
    /\ UNCHANGED <<worktree, index, commits, git_ops, added_apps,
                   updated_apps, MANIFEST_VERSION_CACHE, reads, gitFrame>>

\* lines 213-214: the manifest of the result does not exist
PkgSkip ==
    /\ git_pc = "pkg" /\ todo # <<>>
    /\ worktree[Head(todo)] = "missing"
    /\ todo' = Tail(todo)
    /\ UNCHANGED <<worktree, index, commits, git_ops, git_pc, added_apps,
                   updated_apps, MANIFEST_VERSION_CACHE, reads, gitFrame>>

\* lines 216-219: git add of the manifest of the result
PkgAdd(ok) ==
    /\ git_pc = "pkg" /\ todo # <<>>
    /\ worktree[Head(todo)] # "missing"
    /\ git_ops' = Append(git_ops,
           GitOp("add", Head(todo), IF ok THEN 0 ELSE 1, "-"))
    /\ IF ok
       THEN /\ index' = GitAdd(index, worktree, {Head(todo)})
            /\ git_pc' = "pkg_diff"
            /\ todo' = todo
       ELSE /\ todo' = Tail(todo)
            /\ UNCHANGED <<index, git_pc>>
    /\ UNCHANGED <<worktree, commits, added_apps, updated_apps,
                   MANIFEST_VERSION_CACHE, reads, gitFrame>>

\* lines 220-223: git diff --cached --name-status -- manifest
PkgDiff(ok) ==
    /\ git_pc = "pkg_diff"
    /\ LET ns_out == IF ok THEN index[Head(todo)] ELSE "-"
       IN  /\ git_ops' = Append(git_ops,
                  GitOp("diff", Head(todo), IF ok THEN 0 ELSE 1, ns_out))
           /\ IF HasStagedChanges(ns_out)
              THEN git_pc' = "pkg_commit" /\ todo' = todo
              ELSE git_pc' = "pkg" /\ todo' = Tail(todo)
    /\ UNCHANGED <<worktree, index, commits, added_apps, updated_apps,
                   MANIFEST_VERSION_CACHE, reads, gitFrame>>

\* lines 225-233: the message and the commit of the package
PkgCommit(ok) ==
    /\ git_pc = "pkg_commit"
    /\ LookupFor(<<Head(todo)>>)
    /\ CommitWithMessage(Head(todo), ok)
    /\ todo' = Tail(todo)
    /\ git_pc' = "pkg"
    /\ UNCHANGED <<added_apps, updated_apps, gitFrame>>

\* line 1017 and list_untracked_manifests (lines 192-205): the manifests
\* git does not track
ListUntrackedManifests(ok) ==
    /\ git_pc = "pkg" /\ todo = <<>>
    /\ git_ops' = Append(git_ops,
           GitOp("ls-files", Bucket, IF ok THEN 0 ELSE 1, "-"))
    /\ todo' = IF ok
               THEN Listed({m \in Manifests : /\ worktree[m] = "untracked"
                                              /\ index[m] = "-"})
               ELSE <<>>
    /\ git_pc' = "unt"
    /\ UNCHANGED <<worktree, index, commits, added_apps, updated_apps,
                   MANIFEST_VERSION_CACHE, reads, gitFrame>>

\* lines 1018-1021: git add of an untracked manifest
UntrackedAdd(ok) ==
    /\ git_pc = "unt" /\ todo # <<>>
    /\ git_ops' = Append(git_ops,
           GitOp("add", Head(todo), IF ok THEN 0 ELSE 1, "-"))
    /\ IF ok
       THEN /\ index' = GitAdd(index, worktree, {Head(todo)})
            /\ git_pc' = "unt_commit"
            /\ todo' = todo
       ELSE /\ todo' = Tail(todo)
            /\ UNCHANGED <<index, git_pc>>
    /\ UNCHANGED <<worktree, commits, added_apps, updated_apps,
                   MANIFEST_VERSION_CACHE, reads, gitFrame>>

\* lines 1023-1025: the message and the commit of the untracked manifest
UntrackedCommit(ok) ==
    /\ git_pc = "unt_commit"
    /\ LookupFor(<<Head(todo)>>)
    /\ CommitWithMessage(Head(todo), ok)
    /\ todo' = Tail(todo)
    /\ git_pc' = "unt"
    /\ UNCHANGED <<added_apps, updated_apps, gitFrame>>

\* lines 1027 and 1053, push_changes (lines 152-164)
GitPush(ok) ==
    /\ \/ git_pc = "unt" /\ todo = <<>>
       \/ git_pc = "push"
    /\ git_ops' = git_ops \o
           [k \in 1..Len(PushChanges(args)) |->
               GitOp(PushChanges(args)[k], NoPath, IF ok THEN 0 ELSE 1, "-")]
    /\ git_pc' = "done"
    /\ UNCHANGED <<worktree, index, commits, todo, added_apps, updated_apps,
                   MANIFEST_VERSION_CACHE, reads, gitFrame>>

\* line 1029, stage_bucket_changes (lines 110-114): git add bucket
StageBucketChanges(ok) ==
    /\ git_pc = "agg_add"
    /\ git_ops' = Append(git_ops,
           GitOp("add", Bucket, IF ok THEN 0 ELSE 1, "-"))
    /\ index' = IF ok THEN GitAdd(index, worktree, Manifests) ELSE index
    /\ git_pc' = "agg_diff"
    /\ UNCHANGED <<worktree, commits, todo, added_apps, updated_apps,
                   MANIFEST_VERSION_CACHE, reads, gitFrame>>

\* lines 1030-1033, get_staged_bucket_changes (lines 116-137)
GetStagedBucketChanges(ok) ==
    /\ git_pc = "agg_diff"
    /\ LET added == IF ok THEN Listed({m \in Manifests : index[m] = "A"})
                    ELSE <<>>
           updated == IF ok THEN Listed({m \in Manifests : index[m] = "M"})
                      ELSE <<>>
       IN  /\ added_apps' = added
           /\ updated_apps' = updated
           /\ git_pc' = IF added = <<>> /\ updated = <<>>
                        THEN "done" ELSE "agg_updated"
    /\ git_ops' = Append(git_ops,
           GitOp("diff", Bucket, IF ok THEN 0 ELSE 1, "-"))
    /\ UNCHANGED <<worktree, index, commits, todo, MANIFEST_VERSION_CACHE,
                   reads, gitFrame>>

\* lines 1035-1042: the commit of the updated manifests
CommitUpdated(ok) ==
    /\ git_pc = "agg_updated"
    /\ IF updated_apps # <<>>
       THEN /\ LookupFor(updated_apps)
            /\ CommitWithMessage(<<"updated">>, ok)
       ELSE UNCHANGED <<worktree, index, commits, git_ops,
                        MANIFEST_VERSION_CACHE, reads>>
    /\ git_pc' = "agg_added"
    /\ UNCHANGED <<todo, added_apps, updated_apps, gitFrame>>

\* lines 1044-1051: the commit of the added manifests
CommitAdded(ok) ==
    /\ git_pc = "agg_added"
    /\ IF added_apps # <<>>
       THEN /\ LookupFor(added_apps)
            /\ CommitWithMessage(<<"added">>, ok)
       ELSE UNCHANGED <<worktree, index, commits, git_ops,
                        MANIFEST_VERSION_CACHE, reads>>
    /\ git_pc' = "push"
    /\ UNCHANGED <<todo, added_apps, updated_apps, gitFrame>>

IdleGit ==
    /\ worktree = [m \in Manifests |-> "clean"]
    /\ index = [m \in Manifests |-> "-"]
    /\ commits = <<>>
    /\ git_ops = <<>>
    /\ git_pc = "idle"
    /\ todo = <<>>
    /\ added_apps = <<>>
    /\ updated_apps = <<>>

IdleLate == IdleLock /\ IdleGit /\ IdleClass

IdleRest == IdleCache /\ IdleJson /\ IdleMain /\ IdleLate

----------------------------------------------------------------------------
(* Specifications *)

Range(q) == {q[i] : i \in DOMAIN q}

\* ---- parse_script_output on every output of at most MaxLen tokens
ParseInit ==
    /\ MANIFEST_VERSION_CACHE = EmptyCache
    /\ PREFER_STRUCTURED_OUTPUT \in BOOLEAN
    /\ p_output \in SeqsUpTo(Tokens, MaxLen)
    /\ p_script \in {ScriptA, ScriptB}
    /\ p_pc = "call"
    /\ p_ret = <<FALSE, FALSE>>
    /\ IdleRetry /\ retries = 0
    /\ IdleSeq /\ IdlePar /\ IdleResume
    /\ IdleRest

ParseNext == ParseCall

SpecParse == ParseInit /\ [][ParseNext]_vars

\* parse_script_output on an output with two structured payloads: each
\* payload is an object with an updated key, with or without a version;
\* between them stand up to MaxGap line breaks or words.
MaxGap == 2
Payloads ==
    {<<"{", u, "}">> : u \in UpdatedTokens}
        \cup {<<"{", u, "ver", "}">> : u \in UpdatedTokens}

PayloadsInit ==
    /\ MANIFEST_VERSION_CACHE = EmptyCache
    /\ PREFER_STRUCTURED_OUTPUT \in BOOLEAN
    /\ \E first \in Payloads, second \in Payloads,
          gap \in SeqsUpTo({"nl", "x"}, MaxGap) :
           p_output = first \o gap \o second
    /\ p_script \in {ScriptA, ScriptB}
    /\ p_pc = "call"
    /\ p_ret = <<FALSE, FALSE>>
    /\ IdleRetry /\ retries = 0
    /\ IdleSeq /\ IdlePar /\ IdleResume
    /\ IdleRest

SpecPayloads == PayloadsInit /\ [][ParseNext]_vars

\* ---- run_update_script_with_retry called once
RetryValues == (-1)..MaxRetries

RetryInit ==
    /\ MANIFEST_VERSION_CACHE = EmptyCache
    /\ PREFER_STRUCTURED_OUTPUT \in BOOLEAN
    /\ IdleParse
    /\ retries \in RetryValues
    /\ r_script \in {ScriptA, ScriptB}
    /\ r_stream \in [1..(MaxRetries + 2) -> Outcomes]
    /\ r_pc = "call"
    /\ r_ret = NoneResult
    /\ r_sleeps = <<>>
    /\ execs = [c \in Slots |-> <<>>]
    /\ IdleSeq /\ IdlePar /\ IdleResume
    /\ IdleRest

RetryNext == RetryCall

SpecRetry == RetryInit /\ [][RetryNext]_vars

\* the task lists: the prefixes of one list of distinct names, not sorted
PoolNames == <<ScriptB, ScriptA, ScriptUpperB, ScriptZ>>
TaskLists(n) == {SubSeq(PoolNames, 1, k) : k \in 0..n}

\* ---- run_sequential
SeqRetryValues == {-1, 0, 1}
MaxFail == 2
MaxFailValues == (-1)..MaxFail
DelayValues == {0, 1}

SeqInit ==
    /\ MANIFEST_VERSION_CACHE = EmptyCache
    /\ PREFER_STRUCTURED_OUTPUT = FALSE
    /\ IdleParse
    /\ IdleRetry
    /\ retries \in SeqRetryValues
    /\ scripts \in TaskLists(MaxTasks)
    /\ fail_fast \in BOOLEAN
    /\ max_fail \in MaxFailValues
    /\ delay \in DelayValues
    /\ s_pc = "loop"
    /\ s_i = 1
    /\ s_results = <<>>
    /\ failures = 0
    /\ s_broke = FALSE
    /\ s_slept = 0
    /\ IdlePar /\ IdleResume
    /\ IdleRest

SeqNext == SeqIter \/ SeqReturn

SpecSeq == SeqInit /\ [][SeqNext]_vars

\* ---- filter_resume_paths
MaxPaths == 2

ResumeInit ==
    /\ MANIFEST_VERSION_CACHE = EmptyCache
    /\ PREFER_STRUCTURED_OUTPUT = FALSE
    /\ IdleParse
    /\ IdleRetry /\ retries = 0
    /\ IdleSeq /\ IdlePar
    /\ IdleRest
    /\ f_paths \in SeqsUpTo(Names, MaxPaths)
    /\ f_prev \in [readable : BOOLEAN, results : SeqsUpTo(ResumeItems, MaxPrev)]
    /\ f_pc = "call"
    /\ f_ret = <<>>

ResumeNext == FilterCall

SpecResume == ResumeInit /\ [][ResumeNext]_vars

\* ---- run_parallel
\* MAX_GITHUB_WORKERS, MAX_MICROSOFT_WORKERS, MAX_GOOGLE_WORKERS
DefaultLimits == [github |-> 3, microsoft |-> 3, google |-> 4]

\* the state of run_parallel when the tasks have been submitted (lines
\* 411-466), for the given arguments and classification of the tasks
ParSetup(tasks, mw, limits, r, threshold, sleep, classes) ==
    /\ MANIFEST_VERSION_CACHE = EmptyCache
    /\ PREFER_STRUCTURED_OUTPUT = FALSE
    /\ IdleParse
    /\ IdleRetry
    /\ retries = r
    /\ scripts = tasks
    /\ fail_fast = FALSE
    /\ max_fail = 0
    /\ delay = 0
    /\ s_pc = "idle"
    /\ s_i = 1
    /\ s_results = <<>>
    /\ failures = 0
    /\ s_broke = FALSE
    /\ s_slept = 0
    /\ max_workers_arg = mw
    /\ workers_arg = limits
    /\ circuit_threshold = threshold
    /\ circuit_sleep = sleep
    /\ prov_map = classes
    /\ max_workers = CapWorkers(mw, Len(tasks))
    /\ sems = [p \in Providers |->
                  SemaphoreValue(p, limits, CapWorkers(mw, Len(tasks)))]
    /\ prov_paused_until = [p \in Providers |-> 0]
    /\ prov_failures = [p \in Providers |-> 0]
    /\ t_pc = [i \in 1..Len(tasks) |-> "queued"]
    /\ t_wake = [i \in 1..Len(tasks) |-> 0]
    /\ t_result = [i \in 1..Len(tasks) |-> NoneResult]
    /\ results = <<>>
    /\ m_pc = "running"
    /\ IdleResume
    /\ IdleRest

ParNext ==
    \/ \E i \in TaskIds : TaskStart(i)
    \/ \E i \in TaskIds : TaskWake(i)
    \/ \E i \in TaskIds : TaskAcquire(i)
    \/ \E i \in TaskIds : TaskFinish(i)
    \/ \E i \in TaskIds : MainProcess(i)
    \/ MainReturn
    \/ Tick

\* Throttling: the first k tasks of the list are classified into one
\* limited provider, whose limit runs over LimitValues, and the others into
\* another provider; the other limits are the defaults. The breaker trips
\* at the first failure of a provider, and for github at the second too.
LimitValues == 0..MaxLimit
ParRetryValues == {-1, 0}
ThresholdValues == {1, 2}
SleepValues == {1}

ParInit ==
    \E n \in 0..MaxParTasks :
      \E cat \in LimitedProviders, rest \in {"other", "google"}, k \in 0..n :
        \E mw \in 1..MaxParTasks, lim \in LimitValues, r \in ParRetryValues,
           threshold \in (IF cat = "github" THEN ThresholdValues ELSE {1}),
           sleep \in SleepValues :
            ParSetup(SubSeq(PoolNames, 1, n), mw,
                     [DefaultLimits EXCEPT ![cat] = lim], r, threshold, sleep,
                     [nm \in Range(SubSeq(PoolNames, 1, n)) |->
                        IF \E j \in 1..k : PoolNames[j] = nm
                        THEN cat ELSE rest])

SpecPar == ParInit /\ [][ParNext]_vars

\* Pool threads: the first two tasks of the list are github tasks, which
\* run one at a time, or none is, and the others are other tasks; the pool
\* has one or two threads and the breaker trips at the first failure.
MaxPoolTasks == 3
PoolWorkers == {1, 2}

ParPoolInit ==
    \E n \in 0..MaxPoolTasks, k \in {0, 2}, mw \in PoolWorkers :
        /\ k <= n
        /\ ParSetup(SubSeq(PoolNames, 1, n), mw,
                    [DefaultLimits EXCEPT !["github"] = 1], 0, 1, 1,
                    [nm \in Range(SubSeq(PoolNames, 1, n)) |->
                        IF \E j \in 1..k : PoolNames[j] = nm
                        THEN "github" ELSE "other"])

SpecParPool == ParPoolInit /\ [][ParNext]_vars

\* The loop statement by statement: the tasks of the list are github
\* tasks, the breaker trips at the first or at the second failure.
LockInit ==
    \E n \in 0..MaxParTasks, mw \in 1..MaxParTasks, r \in ParRetryValues,
       threshold \in ThresholdValues :
        ParSetup(SubSeq(PoolNames, 1, n), mw, DefaultLimits, r, threshold, 1,
                 [nm \in Range(SubSeq(PoolNames, 1, n)) |-> "github"])

LockNext ==
    \/ \E i \in TaskIds : TaskStart(i)
    \/ \E i \in TaskIds : TaskWake(i)
    \/ \E i \in TaskIds : TaskAcquire(i)
    \/ \E i \in TaskIds : TaskFinish(i)
    \/ \E i \in TaskIds : LoopTake(i)
    \/ \E i \in TaskIds : LoopLock(i)
    \/ \E i \in TaskIds : LoopCount(i)
    \/ \E i \in TaskIds : LoopUnlock(i)
    \/ MainReturn
    \/ Tick

SpecLock == LockInit /\ [][LockNext]_vars

\* Ordering: every task list over Names, in one provider, the breaker
\* tripping at the first failure.
ParSortInit ==
    \E tasks \in SeqsUpTo(Names, MaxParTasks), cat \in {"github", "other"} :
      \E mw \in 1..MaxParTasks, r \in ParRetryValues, sleep \in SleepValues :
            ParSetup(tasks, mw, DefaultLimits, r, 1, sleep,
                     [nm \in Range(tasks) |-> cat])

SpecParSort == ParSortInit /\ [][ParNext]_vars

\* ---- sequences of get_manifest_version and parse_script_output calls
CacheInit ==
    /\ MANIFEST_VERSION_CACHE = EmptyCache
    /\ PREFER_STRUCTURED_OUTPUT = FALSE
    /\ IdleParse
    /\ IdleRetry /\ retries = 0
    /\ IdleSeq /\ IdlePar /\ IdleResume
    /\ disk \in {d \in [Packages -> DiskStates] :
                    \A p \in Packages \ CachePackages : d[p] = "missing"}
    /\ reads = [p \in Packages |-> 0]
    /\ g_n = 0
    /\ g_pkg = <<>>
    /\ g_before = "absent"
    /\ g_ret = ""
    /\ g_read = FALSE
    /\ IdleJson /\ IdleMain /\ IdleLate

CacheNext ==
    \/ \E app_name \in CachePackages : GetCall(app_name)
    \/ \E output \in CacheOutputs, script_name \in {ScriptA, ScriptB} :
          PrimeCall(output, script_name)

SpecCache == CacheInit /\ [][CacheNext]_vars

\* ---- write_json_summary on every result list of at most MaxResults
\* results, whatever their success and updated fields
SummaryResults ==
    {UpdateResult(n, su, up, 1) :
        n \in {ScriptA, ScriptB}, su \in BOOLEAN, up \in BOOLEAN}

JsonInit ==
    /\ MANIFEST_VERSION_CACHE \in
           {EmptyCache, [EmptyCache EXCEPT ![PkgOf(ScriptA)] = "1.2.3"]}
    /\ PREFER_STRUCTURED_OUTPUT = FALSE
    /\ IdleParse
    /\ IdleRetry /\ retries = 0
    /\ IdleSeq /\ IdlePar /\ IdleResume
    /\ disk = [p \in Packages |->
                  IF p = PkgOf(ScriptB) THEN "2.0.0" ELSE "missing"]
    /\ reads = [p \in Packages |-> 0]
    /\ g_n = 0
    /\ g_pkg = <<>>
    /\ g_before = "absent"
    /\ g_ret = ""
    /\ g_read = FALSE
    /\ j_results \in SeqsUpTo(SummaryResults, MaxResults)
    /\ j_mode \in JsonModes
    /\ j_pc = "call"
    /\ j_file = NoFile
    /\ IdleMain /\ IdleLate

JsonNext == WriteJsonSummary

SpecJson == JsonInit /\ [][JsonNext]_vars

\* ---- main from the provider filters on, for every plan of at most MaxPlan
\* scripts, every pair of provider lists over two categories and every
\* combination of the flags that main reads from there on
MaxPlan == 2
MainClasses ==
    [n \in Range(PoolNames) |->
        IF n \in {ScriptB, ScriptUpperB} THEN "github" ELSE "other"]
ProviderLists == SUBSET {"github", "other"}

MainInit ==
    /\ MANIFEST_VERSION_CACHE = EmptyCache
    /\ PREFER_STRUCTURED_OUTPUT = FALSE
    /\ IdleParse
    /\ IdleRetry /\ retries = 0
    /\ IdleSeq /\ IdlePar /\ IdleResume
    /\ disk = [p \in Packages |->
                  IF p = PkgOf(ScriptB) THEN "2.0.0" ELSE "missing"]
    /\ reads = [p \in Packages |-> 0]
    /\ g_n = 0
    /\ g_pkg = <<>>
    /\ g_before = "absent"
    /\ g_ret = ""
    /\ g_read = FALSE
    /\ IdleJson /\ IdleLate
    /\ args \in [only_providers : ProviderLists,
                 skip_providers : ProviderLists,
                 dry_run : BOOLEAN, no_error_exit : BOOLEAN,
                 skip_git : BOOLEAN, git_per_package : {FALSE},
                 git_aggregate : BOOLEAN, git_dry_run : BOOLEAN]
    /\ provider_class = MainClasses
    /\ script_paths \in TaskLists(MaxPlan)
    /\ paths_in = script_paths
    /\ o_pc = "filter"
    /\ main_results = <<>>
    /\ executed = {}
    /\ git_log = <<>>
    /\ md_written = FALSE
    /\ webhook_sent = FALSE
    /\ exit_code = "none"

MainNext ==
    \/ MainFilter
    \/ MainPlan
    \/ MainExecute
    \/ MainReport
    \/ MainFinish

SpecMain == MainInit /\ [][MainNext]_vars

\* The git block of main over a repository: the results of the run are
\* none, or successful results for the first MaxGitTasks scripts of
\* GitNames, each one updated or not; every manifest of the bucket is unchanged, modified, new or
\* absent; nothing is staged when the block starts; every git command
\* succeeds or fails.
MaxGitTasks == 2
WorktreeStates == {"clean", "modified", "untracked", "missing"}

GitInit ==
    /\ MANIFEST_VERSION_CACHE = EmptyCache
    /\ PREFER_STRUCTURED_OUTPUT = FALSE
    /\ IdleParse
    /\ IdleRetry /\ retries = 0
    /\ IdleSeq /\ IdlePar /\ IdleResume
    /\ disk = [p \in Packages |->
                  IF p = PkgOf(ScriptB) THEN "2.0.0" ELSE "missing"]
    /\ reads = [p \in Packages |-> 0]
    /\ g_n = 0
    /\ g_pkg = <<>>
    /\ g_before = "absent"
    /\ g_ret = ""
    /\ g_read = FALSE
    /\ IdleJson /\ IdleLock /\ IdleClass
    /\ \E per_package \in BOOLEAN, aggregate \in BOOLEAN, dry \in BOOLEAN :
           args = [NoArgs EXCEPT !.git_per_package = per_package,
                                 !.git_aggregate = aggregate,
                                 !.git_dry_run = dry]
    /\ provider_class = MainClasses
    /\ \E n \in {0, MaxGitTasks} : \E upd \in [1..n -> BOOLEAN] :
           /\ script_paths = SubSeq(GitNames, 1, n)
           /\ main_results =
                  [i \in 1..n |-> UpdateResult(GitNames[i], TRUE, upd[i], 1)]
    /\ paths_in = script_paths
    /\ o_pc = "finish"
    /\ executed = Range(script_paths)
    /\ git_log = <<>>
    /\ md_written = FALSE
    /\ webhook_sent = FALSE
    /\ exit_code = "none"
    /\ worktree \in [Manifests -> WorktreeStates]
    /\ index = [m \in Manifests |-> "-"]
    /\ commits = <<>>
    /\ git_ops = <<>>
    /\ git_pc = "start"
    /\ todo = <<>>
    /\ added_apps = <<>>
    /\ updated_apps = <<>>

GitNext ==
    \/ GitBegin
    \/ PkgSkip
    \/ \E ok \in BOOLEAN : PkgAdd(ok)
    \/ \E ok \in BOOLEAN : PkgDiff(ok)
    \/ \E ok \in BOOLEAN : PkgCommit(ok)
    \/ \E ok \in BOOLEAN : ListUntrackedManifests(ok)
    \/ \E ok \in BOOLEAN : UntrackedAdd(ok)
    \/ \E ok \in BOOLEAN : UntrackedCommit(ok)
    \/ \E ok \in BOOLEAN : GitPush(ok)
    \/ \E ok \in BOOLEAN : StageBucketChanges(ok)
    \/ \E ok \in BOOLEAN : GetStagedBucketChanges(ok)
    \/ \E ok \in BOOLEAN : CommitUpdated(ok)
    \/ \E ok \in BOOLEAN : CommitAdded(ok)

SpecGit == GitInit /\ [][GitNext]_vars

\* classify_provider: the script update-a.py, an override mapping with an
\* entry, an empty entry or no entry for the script name and for the
\* package name, and a script file that cannot be read or that holds up to
\* MaxPieces pieces of text.
MaxPieces == 3
MapValues == {"absent", "", "google", "custom"}
RECURSIVE TextsUpTo(_)
TextsUpTo(n) ==
    IF n = 0 THEN {<<>>}
    ELSE TextsUpTo(n - 1)
         \cup {Append(t, piece) : t \in {u \in TextsUpTo(n - 1) :
                                            Len(u) = n - 1},
                                  piece \in Pieces}

ClassInit ==
    /\ MANIFEST_VERSION_CACHE = EmptyCache
    /\ PREFER_STRUCTURED_OUTPUT = FALSE
    /\ IdleParse
    /\ IdleRetry /\ retries = 0
    /\ IdleSeq /\ IdlePar /\ IdleResume
    /\ IdleCache /\ IdleJson /\ IdleMain /\ IdleLock /\ IdleGit
    /\ c_path = ScriptA
    /\ \E by_name \in MapValues, by_pkg \in MapValues :
           provider_map =
               [key \in (IF by_name = "absent" THEN {} ELSE {ScriptA})
                        \cup (IF by_pkg = "absent" THEN {}
                              ELSE {PkgOf(ScriptA)}) |->
                   IF key = ScriptA THEN by_name ELSE by_pkg]
    /\ \/ c_file = [readable |-> FALSE, text |-> <<>>]
       \/ \E text \in TextsUpTo(MaxPieces) :
              c_file = [readable |-> TRUE, text |-> text]
    /\ c_pc = "call"
    /\ c_ret = "none"

ClassNext ==
    \/ ClassifyCall
    \/ ClassifyAgain

SpecClass == ClassInit /\ [][ClassNext]_vars

----------------------------------------------------------------------------
(* Properties of run_update_script_with_retry, under SpecRetry *)

\* every execution of the task of the wrapper fails
AlwaysFailing == \A k \in DOMAIN r_stream : r_stream[k].kind # "exit0"

\* C2: called with retries = R >= 0 on a task whose every execution fails,
\* the wrapper executes the task exactly R + 1 times and returns the result
\* of the last, (R + 1)-th, execution.
C2_ExactlyRPlusOneExecutions ==
    (r_pc = "returned" /\ retries >= 0 /\ AlwaysFailing) =>
        /\ Len(execs[1]) = retries + 1
        /\ r_ret = execs[1][retries + 1]
        /\ r_ret = RunUpdateScript(r_script, r_stream[retries + 1],
                                   PREFER_STRUCTURED_OUTPUT, retries + 1)
        /\ ~r_ret.success

C2_Witness ==
    /\ r_pc = "returned"
    /\ retries >= 1
    /\ AlwaysFailing
    /\ Len(execs[1]) = retries + 1

\* C3: for every value of retries the wrapper executes the task at least
\* once and returns a result: that of the first successful execution, after
\* which no execution is made, or else that of the last failing execution.
\* Violated: with retries < 0 the loop body never runs and None is returned.
C3_AlwaysReturnsResult ==
    r_pc = "returned" =>
        /\ Len(execs[1]) >= 1
        /\ r_ret.kind = "UpdateResult"
        /\ r_ret = execs[1][Len(execs[1])]
        /\ \A k \in 1..(Len(execs[1]) - 1) : ~execs[1][k].success

\* the call that returns None
C3_NoneReturned ==
    /\ r_pc = "returned"
    /\ retries < 0
    /\ execs[1] = <<>>
    /\ r_ret = NoneResult

----------------------------------------------------------------------------
(* Properties of run_sequential, under SpecSeq *)

\* the number of failing results among rs
NFail(rs) == Cardinality({k \in 1..Len(rs) : ~rs[k].success})

\* the results are those of the first Len(s_results) tasks, in input order
ResultsFollowInput ==
    /\ Len(s_results) <= Len(scripts)
    /\ \A k \in 1..Len(s_results) :
          /\ s_results[k].script_name = scripts[k]
          /\ execs[k] # <<>>
          /\ s_results[k] = execs[k][Len(execs[k])]

\* C5: with fail_fast set run_sequential stops at the first failing task:
\* the results are those of the tasks up to and including the first failing
\* one, in input order, and no task after the first failing task is ever
\* executed.
C5_FailFastStopsAtFirstFailure ==
    fail_fast =>
        /\ \A k \in 1..Len(s_results) : \A j \in 1..Len(scripts) :
              (~s_results[k].success /\ j > k) => execs[j] = <<>>
        /\ s_pc = "done" =>
              /\ ResultsFollowInput
              /\ \A k \in 1..(Len(s_results) - 1) : s_results[k].success
              /\ Len(s_results) < Len(scripts) =>
                    /\ Len(s_results) > 0
                    /\ ~s_results[Len(s_results)].success

\* the run of [ok, fail, after]
C5_Witness ==
    /\ s_pc = "done"
    /\ fail_fast
    /\ Len(scripts) = 3
    /\ Len(s_results) = 2
    /\ s_results[1].success
    /\ ~s_results[2].success
    /\ execs[3] = <<>>

\* C6, as stated: whenever run_sequential terminates early because of
\* fail_fast or max_fail, the list it returns is strictly shorter than the
\* task list. Violated when the task whose failure stops the run is the last.
C6_TerminatedRunsStrictlyShorter ==
    (s_pc = "done" /\ s_broke) => Len(s_results) < Len(scripts)

\* C6, amended: the list returned is never longer than the task list; a run
\* is terminated early only by a failure under fail_fast or with max_fail
\* reached, its list ends with the result of the task that stopped it, and
\* is strictly shorter than the task list exactly when that task is not the
\* last one; a run that is not terminated returns one result for each task.
C6_TerminatedRunsNotLonger ==
    s_pc = "done" =>
        /\ Len(s_results) <= Len(scripts)
        /\ s_broke =>
              /\ fail_fast \/ (max_fail # 0 /\ NFail(s_results) >= max_fail)
              /\ Len(s_results) = s_i
              /\ ~s_results[s_i].success
              /\ (Len(s_results) < Len(scripts)) <=> (s_i < Len(scripts))
        /\ ~s_broke => Len(s_results) = Len(scripts)

\* a run terminated at its last task
C6_Witness ==
    /\ s_pc = "done"
    /\ s_broke
    /\ Len(scripts) >= 2
    /\ Len(s_results) = Len(scripts)

\* C7: with max_fail = M > 0 and fail_fast unset run_sequential stops
\* exactly when M failures have accumulated: the results never hold more
\* than M failing results, no task after the M-th failing task is executed,
\* and when fewer than M tasks fail every task is executed.
C7_MaxFailStopsAtMthFailure ==
    (max_fail > 0 /\ ~fail_fast) =>
        /\ NFail(s_results) <= max_fail
        /\ \A k \in 1..Len(s_results) : \A j \in 1..Len(scripts) :
              (NFail(SubSeq(s_results, 1, k)) >= max_fail /\ j > k)
                  => execs[j] = <<>>
        /\ (s_pc = "done" /\ NFail(s_results) < max_fail) =>
              /\ ~s_broke
              /\ Len(s_results) = Len(scripts)
              /\ \A j \in 1..Len(scripts) : execs[j] # <<>>
        /\ (s_pc = "done" /\ NFail(s_results) = max_fail) =>
              /\ s_broke
              /\ ~s_results[Len(s_results)].success

\* two failures with max_fail = 2 stop a run of three tasks
C7_Witness ==
    /\ s_pc = "done"
    /\ ~fail_fast
    /\ max_fail = 2
    /\ Len(scripts) = 3
    /\ Len(s_results) = 2
    /\ NFail(s_results) = 2
    /\ execs[3] = <<>>

----------------------------------------------------------------------------
(* Properties of filter_resume_paths, under SpecResume *)

\* every record of the summary holds a script and a boolean success, as the
\* summaries written by a run do
WellFormedSummary ==
    \A k \in 1..Len(f_prev.results) :
        /\ f_prev.results[k].script # <<>>
        /\ f_prev.results[k].success \in {"true", "false"}

\* the summary records a result with success = false for the task
PrevFailed(name) ==
    \E k \in 1..Len(f_prev.results) :
        /\ f_prev.results[k].script = name
        /\ f_prev.results[k].success = "false"

\* the summary records no failure at all
ZeroFailures ==
    \A k \in 1..Len(f_prev.results) : f_prev.results[k].success = "true"

\* C8: given a readable summary that records at least one failed task of
\* the current list, filter_resume_paths returns exactly the tasks of the
\* list whose previous result had success = false, in their original order;
\* given a summary with zero failures it returns the list unchanged.
C8_ResumeKeepsFailedInOrder ==
    (f_pc = "done" /\ f_prev.readable /\ WellFormedSummary) =>
        /\ (\E k \in 1..Len(f_paths) : PrevFailed(f_paths[k])) =>
              f_ret = SelectSeq(f_paths, PrevFailed)
        /\ ZeroFailures => f_ret = f_paths

\* one task of two is kept, the other succeeded before
C8_Witness ==
    /\ f_pc = "done"
    /\ f_prev.readable
    /\ WellFormedSummary
    /\ Len(f_paths) = 2
    /\ PrevFailed(f_paths[1])
    /\ ~PrevFailed(f_paths[2])
    /\ f_ret = <<f_paths[1]>>

\* C9: the resume filter never empties the plan: for every non-empty task
\* list and every summary, if no task of the list matches a previous
\* failure the filter returns the list unchanged, so its result is never
\* empty. Violated: failed records that name no task of the list make the
\* filter return the empty list.
C9_ResumeNeverEmptiesPlan ==
    (f_pc = "done" /\ f_paths # <<>>) =>
        /\ f_ret # <<>>
        /\ (\A k \in 1..Len(f_paths) : f_paths[k] \notin FailedScripts(f_prev))
              => f_ret = f_paths

\* the plan emptied by a well-formed summary
C9_EmptiedPlan ==
    /\ f_pc = "done"
    /\ f_prev.readable
    /\ WellFormedSummary
    /\ f_paths # <<>>
    /\ f_ret = <<>>

----------------------------------------------------------------------------
(* Properties of parse_script_output, under SpecParse *)

\* the `updated` values of the valid structured payloads that stand in the
\* output: the pieces of it that are a JSON object with an `updated` key
PayloadValues(output) ==
    {JsonLoads(SubSeq(output, i, j)).updated :
        <<i, j>> \in {ij \in (1..Len(output)) \X (1..Len(output)) :
                        /\ ij[1] < ij[2]
                        /\ output[ij[1]] = "{"
                        /\ output[ij[2]] = "}"
                        /\ HasUpdatedKey(JsonLoads(SubSeq(output, ij[1],
                                                          ij[2])))}}

\* C10: whenever the output holds a valid structured payload,
\* parse_script_output returns (u, not u), u being the `updated` value of
\* the payload, whatever the structured-only flag, the other text of the
\* output and the place of the payload. Violated: a brace elsewhere in the
\* output makes both structured searches miss the payload.
C10_PayloadIsAuthoritative ==
    p_pc = "done" =>
        \A u \in {"true", "false"} :
            PayloadValues(p_output) = {u} =>
                p_ret = <<u = "true", u # "true">>

\* the payload {"updated": false} followed by a closing brace on its line,
\* reported as updated
C10_StrayBrace ==
    /\ p_pc = "done"
    /\ ~PREFER_STRUCTURED_OUTPUT
    /\ p_output = <<"{", "uf", "}", "}">>
    /\ PayloadValues(p_output) = {"false"}
    /\ p_ret = <<TRUE, FALSE>>

----------------------------------------------------------------------------
(* Properties of run_parallel, under SpecPar and SpecParSort *)

\* C1, as stated: for each of github, microsoft and google, at every
\* moment the number of tasks of that category that are executing is at
\* most min(configured limit of the category, max_workers). Violated when
\* the configured limit is 0 or less: the semaphore still admits one task.
C1_AtMostMinLimitWorkers ==
    \A cat \in LimitedProviders :
        Cardinality(Holding(cat)) <= Min(workers_arg[cat], max_workers)

\* C1, amended: at every moment the number of tasks of a category that are
\* executing is at most max(1, min(configured limit, max_workers)),
\* max_workers being the pool size capped to the number of tasks.
C1_AtMostSemaphoreValue ==
    \A cat \in LimitedProviders :
        Cardinality(Holding(cat))
            <= Max(1, Min(workers_arg[cat], max_workers))

\* a task kept waiting by the limit of its category while a pool thread
\* is free for it
C1_Witness ==
    \E cat \in LimitedProviders :
        /\ workers_arg[cat] < max_workers
        /\ Cardinality(Holding(cat)) = Max(1, workers_arg[cat])
        /\ \E i \in TaskIds : t_pc[i] = "acquire" /\ ProvOf(i) = cat

\* C4: the list returned by run_parallel is sorted in ascending order of
\* task name, for every input ordering of the tasks and every order in
\* which the tasks complete; it holds the result of each task.
C4_ResultsSortedByName ==
    m_pc = "done" =>
        /\ Len(results) = Len(scripts)
        /\ \A i \in TaskIds : \E k \in 1..Len(results) :
              results[k] = t_result[i]
        /\ \A k \in 1..(Len(results) - 1) :
              ~StrLess(results[k + 1].script_name, results[k].script_name)

\* two tasks given in descending order of name, returned in ascending order
C4_Witness ==
    /\ m_pc = "done"
    /\ Len(scripts) = 2
    /\ StrLess(scripts[2], scripts[1])
    /\ Len(results) = 2
    /\ results[1].script_name = scripts[2]
    /\ results[2].script_name = scripts[1]

----------------------------------------------------------------------------
(* Properties of get_manifest_version, under SpecCache *)

\* C11: in any sequence of parse_script_output and get_manifest_version
\* calls, once the cache has an entry for a package (primed by a structured
\* payload with a version, or filled by a first lookup, a miss being stored
\* as the empty string), every later lookup returns the cached value without
\* reading the manifest: each manifest is read at most once, and never
\* after priming.
C11_CachedValueWithoutRead ==
    /\ \A p \in Packages : reads[p] <= 1
    /\ \A p \in Packages : reads[p] = 1 => MANIFEST_VERSION_CACHE[p] # "absent"
    /\ g_pkg # <<>> =>
          /\ MANIFEST_VERSION_CACHE[g_pkg] # "absent"
          /\ g_before # "absent" => (g_ret = g_before /\ ~g_read)
          /\ g_before = "absent" =>
                (g_read /\ g_ret = ReadManifest(disk[g_pkg]))

\* a lookup served from a primed entry while the manifest on disk holds
\* another version and has never been read
C11_Witness ==
    /\ g_pkg # <<>>
    /\ g_before = "1.2.3"
    /\ g_ret = "1.2.3"
    /\ disk[g_pkg] = "2.0.0"
    /\ reads[g_pkg] = 0

----------------------------------------------------------------------------
(* Properties of the verdict without payload, under SpecParse *)

\* the text holds one of the given keywords, in any case
TextHolds(output, toks) == \E i \in 1..Len(output) : output[i] \in toks

\* C12: for an output in which no structured payload is found,
\* parse_script_output returns (False, False) whenever structured-only mode
\* is set, whatever keywords the text holds; with the mode unset it returns
\* the keyword verdict: updated when the text holds 'update completed
\* successfully' or 'updated', no_update_needed when it holds 'no update
\* needed' or 'up to date', in any case.
C12_VerdictWithoutPayload ==
    (p_pc = "done" /\ ~StructuredPayload(p_output).found) =>
        IF PREFER_STRUCTURED_OUTPUT
        THEN p_ret = <<FALSE, FALSE>>
        ELSE /\ p_ret[1] = TextHolds(p_output,
                               {"ucs", "Updated", "ut", "uf", "un"})
             /\ p_ret[2] = TextHolds(p_output, {"noupd", "uptodate"})

\* keywords ignored in structured-only mode
C12_Witness ==
    /\ p_pc = "done"
    /\ PREFER_STRUCTURED_OUTPUT
    /\ ~StructuredPayload(p_output).found
    /\ TextHolds(p_output, {"ucs"})
    /\ TextHolds(p_output, {"uptodate"})
    /\ p_ret = <<FALSE, FALSE>>

----------------------------------------------------------------------------
(* Properties of the results, under SpecPar *)

\* success = false implies updated = false
FailedIsNotUpdated(r) ==
    r.kind = "UpdateResult" => (~r.success => ~r.updated)

\* C13: every result produced by any path (exit code 0, non-zero exit,
\* timeout, spawn error, exception caught in the pool loop) satisfies
\* success = false implies updated = false.
C13_FailedResultNeverUpdated ==
    /\ \A i \in TaskIds : FailedIsNotUpdated(t_result[i])
    /\ \A i \in TaskIds : \A k \in 1..Len(execs[i]) :
          FailedIsNotUpdated(execs[i][k])
    /\ \A k \in 1..Len(results) : FailedIsNotUpdated(results[k])

\* a task that exited with a non-zero code after printing a payload with
\* updated = true and a version: the version is cached, the result is not
\* updated
C13_Witness ==
    \E i \in TaskIds :
        /\ t_pc[i] = "processed"
        /\ Len(execs[i]) = 1
        /\ ~t_result[i].success
        /\ ~t_result[i].updated
        /\ MANIFEST_VERSION_CACHE[PkgOf(scripts[i])] = "1.2.3"

----------------------------------------------------------------------------
(* Properties of write_json_summary, under SpecJson *)

\* the number of results of rs that satisfy Test
HowMany(rs, Test(_)) == Cardinality({k \in 1..Len(rs) : Test(rs[k])})

\* C14: in the JSON summary written for any result list, counts.total is
\* the number of results and of result records, counts.total =
\* counts.successful + counts.failed, counts.successful = counts.updated +
\* counts.no_updates, and each result is counted in exactly one of failed,
\* updated and no_updates.
C14_SummaryCountsAddUp ==
    j_file.written =>
        LET c == j_file.counts
        IN  /\ c.total = Len(j_results)
            /\ c.total = Len(j_file.results)
            /\ c.total = c.successful + c.failed
            /\ c.successful = c.updated + c.no_updates
            /\ c.failed = HowMany(j_results, LAMBDA r : ~r.success)
            /\ c.updated =
                  HowMany(j_results, LAMBDA r : r.success /\ r.updated)
            /\ c.no_updates =
                  HowMany(j_results, LAMBDA r : r.success /\ ~r.updated)

\* one result of each class
C14_Witness ==
    /\ j_file.written
    /\ Len(j_results) = 3
    /\ j_file.counts.failed = 1
    /\ j_file.counts.updated = 1
    /\ j_file.counts.no_updates = 1

----------------------------------------------------------------------------
(* main: exit code, git integration, empty plan, provider filters *)

\* some result of the run has success = false
SomeFailed == \E i \in DOMAIN main_results : ~main_results[i].success

\* C15: once a non-empty plan has been executed, the process ends with exit
\* code 1 exactly when some result has success = false and --no-error-exit
\* is not given, and with exit code 0 otherwise, whatever git, the webhook
\* and the summary files did.
C15_ExitCodeFollowsFailures ==
    (o_pc = "exited" /\ executed # {}) =>
        /\ exit_code \in {0, 1}
        /\ exit_code # 0 <=> (SomeFailed /\ ~args.no_error_exit)

\* a run with a failed result and --no-error-exit, whose JSON summary could
\* not be written and whose `git add` failed, ends with exit code 0
C15_Witness ==
    /\ o_pc = "exited"
    /\ SomeFailed
    /\ args.no_error_exit
    /\ j_mode = "open_fails"
    /\ ~md_written
    /\ git_log = <<"add", "ls-files", "add", "push">>
    /\ exit_code = 0

\* C16: a git command is issued only in a run that is not a dry run, where
\* --skip-git is not given, and where no task failed or --no-error-exit is
\* given.
C16_GitOnlyAfterCleanRun ==
    git_log # <<>> =>
        /\ ~SomeFailed \/ args.no_error_exit
        /\ ~args.skip_git
        /\ ~args.dry_run

\* a run without failures in which add, commit and push were issued
C16_Witness ==
    /\ o_pc = "exited"
    /\ main_results # <<>>
    /\ ~SomeFailed
    /\ ~args.no_error_exit
    /\ {"add", "commit", "push"} \subseteq Range(git_log)

\* C17: when no script is left after the filters, the process exits with
\* code 1 and has executed no task, written no summary, delivered no
\* webhook and issued no git command.
C17_EmptyPlanExitsNonZero ==
    (o_pc \notin {"idle", "filter"} /\ script_paths = <<>>) =>
        /\ o_pc = "exited"
        /\ exit_code = 1
        /\ executed = {}
        /\ main_results = <<>>
        /\ j_file = NoFile
        /\ ~md_written
        /\ ~webhook_sent
        /\ git_log = <<>>

\* two discovered scripts, all removed by the provider filters
C17_Witness ==
    /\ o_pc = "exited"
    /\ Len(paths_in) = 2
    /\ script_paths = <<>>
    /\ exit_code = 1

\* the position of a script in the list before the provider filters
PositionIn(name) == CHOOSE i \in DOMAIN paths_in : paths_in[i] = name

\* the script passes the provider filters that were given
PassesFilters(name) ==
    /\ args.only_providers # {} =>
           provider_class[name] \in args.only_providers
    /\ args.skip_providers # {} =>
           provider_class[name] \notin args.skip_providers

\* C18: after the provider filters, the plan holds exactly the scripts whose
\* category is in the include list (when one is given) and not in the
\* exclude list (when one is given), in their original order; with the same
\* list given to both filters the plan is empty.
C18_ProviderFiltersPartition ==
    o_pc \notin {"idle", "filter"} =>
        /\ Range(script_paths) =
               {n \in Range(paths_in) : PassesFilters(n)}
        /\ \A i, j \in DOMAIN script_paths :
               i < j => PositionIn(script_paths[i])
                            < PositionIn(script_paths[j])
        /\ (args.only_providers # {}
               /\ args.only_providers = args.skip_providers)
              => script_paths = <<>>

\* both lists are {github}: a plan of two scripts is emptied
C18_Witness ==
    /\ o_pc = "exited"
    /\ Len(paths_in) = 2
    /\ args.only_providers = {"github"}
    /\ args.skip_providers = {"github"}
    /\ script_paths = <<>>

----------------------------------------------------------------------------
(* run_parallel: the circuit breaker *)

\* a result returned by a task with success = false
IsFailedResult(r) == r.kind = "UpdateResult" /\ ~r.success

\* the number of failed results of provider prov among the futures that pc
\* marks as processed
FailedProcessed(pc, prov) ==
    Cardinality({i \in TaskIds : /\ pc[i] = "processed"
                                 /\ ProvOf(i) = prov
                                 /\ IsFailedResult(t_result[i])})

\* C19: with circuit_threshold = N > 0, processing a failed result leaves the
\* counter of its provider at (failed results of the provider processed so
\* far) mod N, within 0..N-1, and sets the pause of the provider to
\* now + circuit_sleep exactly when that number is a multiple of N; the
\* other providers keep their counters and pauses, and a result that is not
\* a failed one changes none.
C19_CounterIsFailuresModThreshold ==
    [][circuit_threshold > 0 =>
        \A i \in TaskIds :
            (t_pc[i] = "finished" /\ t_pc'[i] = "processed") =>
                LET prov == ProvOf(i)
                    n == FailedProcessed(t_pc', prov)
                IN  /\ IsFailedResult(t_result[i]) =>
                        /\ prov_failures'[prov] = n % circuit_threshold
                        /\ prov_failures'[prov] \in
                               0..(circuit_threshold - 1)
                        /\ prov_paused_until'[prov] =
                               IF n % circuit_threshold = 0
                               THEN circuit_sleep
                               ELSE prov_paused_until[prov]
                    /\ ~IsFailedResult(t_result[i]) =>
                        UNCHANGED <<prov_failures, prov_paused_until>>
                    /\ \A other \in Providers \ {prov} :
                        /\ prov_failures'[other] = prov_failures[other]
                        /\ prov_paused_until'[other] =
                               prov_paused_until[other]]_vars

\* the second failure of github with a threshold of 2: the counter is back
\* at 0 and github is paused
C19_Witness ==
    /\ circuit_threshold = 2
    /\ FailedProcessed(t_pc, "github") = 2
    /\ prov_failures["github"] = 0
    /\ prov_paused_until["github"] = circuit_sleep
    /\ circuit_sleep > 0

\* C20: no task acquires the semaphore of its provider, and so begins to
\* execute, while the pause of that provider is in effect.
C20_NoAcquireDuringPause ==
    [][\A i \in TaskIds :
          (t_pc[i] = "acquire" /\ t_pc'[i] = "running") =>
              prov_paused_until[ProvOf(i)] = 0]_vars

\* a task that went past the check of the pause (line 449) before its
\* provider was paused: nothing holds it back from the semaphore
C20_PausedAfterCheck ==
    \E i \in TaskIds :
        /\ t_pc[i] = "acquire"
        /\ prov_paused_until[ProvOf(i)] > 0
        /\ sems[SemOf(ProvOf(i))] > 0

----------------------------------------------------------------------------
(* run_parallel: pool threads, termination, semaphores *)

\* task j holds a pool thread without running its script: it sleeps on the
\* pause of its provider or waits for the semaphore of its provider
Stalled(j) ==
    \/ t_pc[j] = "sleeping"
    \/ t_pc[j] = "acquire" /\ sems[SemOf(ProvOf(j))] = 0

\* task i is the next one the pool would start, its provider is not paused
\* and the semaphore of its provider has a free slot
ReadyToStart(i) ==
    /\ m_pc = "running"
    /\ t_pc[i] = "queued"
    /\ \A j \in TaskIds : j < i => t_pc[j] # "queued"
    /\ prov_paused_until[ProvOf(i)] = 0
    /\ sems[SemOf(ProvOf(i))] > 0

\* C21: a task that is ready to start is never kept from starting by a
\* stalled task of another provider: no stalled task of another provider
\* holds a pool thread while every pool thread is taken.
C21_StalledTasksBlockNoOtherProvider ==
    \A i \in TaskIds :
        (ReadyToStart(i) /\ Cardinality(Busy) >= max_workers) =>
            ~\E j \in Busy : Stalled(j) /\ ProvOf(j) # ProvOf(i)

\* two pool threads, one running a github task and one waiting for the
\* github semaphore, while a task of provider other is queued
C21_HeadOfLineBlocking ==
    /\ max_workers = 2
    /\ \E i, j, k \in TaskIds :
        /\ ProvOf(i) = "github" /\ t_pc[i] = "running"
        /\ ProvOf(j) = "github" /\ t_pc[j] = "acquire"
        /\ ProvOf(k) = "other" /\ ReadyToStart(k)

\* the results hold one record for each submitted task
OneResultPerTask ==
    /\ Len(results) = Len(scripts)
    /\ \A i \in TaskIds :
           Cardinality({k \in DOMAIN results :
                           results[k].script_name = scripts[i]}) = 1

\* how many steps of _task and of the main loop task i still has to take
StepsLeft(pc) ==
    CASE pc = "queued" -> 5
      [] pc = "sleeping" -> 4
      [] pc = "acquire" -> 3
      [] pc = "running" -> 2
      [] pc = "finished" -> 1
      [] OTHER -> 0

RECURSIVE SumUpTo(_, _)
SumUpTo(f, n) == IF n = 0 THEN 0 ELSE f[n] + SumUpTo(f, n - 1)

\* what is left of a run: the steps of its tasks, each weighing more than
\* a whole pause, the time left of the sleeps and of the pauses, and the
\* return
WorkLeft(pcs, wakes, paused, main) ==
    (circuit_sleep + 1)
        * SumUpTo([i \in TaskIds |-> StepsLeft(pcs[i])], Len(scripts))
    + SumUpTo(wakes, Len(scripts))
    + paused["github"] + paused["microsoft"] + paused["google"]
    + paused["other"]
    + (IF main = "running" THEN 1 ELSE 0)

\* some thread can go on: a script is being executed, which finishes; a
\* done future is there for the main loop; a sleep ends as time passes; a
\* task waits for a semaphore that has a free slot; a task is queued and a
\* pool thread is free; or every future has been handled and the main
\* thread returns
CanGoOn ==
    \/ \E i \in TaskIds : t_pc[i] \in {"running", "finished", "sleeping"}
    \/ \E i \in TaskIds : t_pc[i] = "acquire" /\ sems[SemOf(ProvOf(i))] > 0
    \/ \E i \in TaskIds : t_pc[i] = "queued" /\ Cardinality(Busy) < max_workers
    \/ \A i \in TaskIds : t_pc[i] = "processed"

\* C22: when every execution of a task finishes, run_parallel comes to an
\* end whatever the tasks, their providers, their failures and the pauses:
\* while it runs some thread can go on (no deadlock on a semaphore or on
\* the pool), and every step brings the end nearer; when it returns, every
\* task has been run and handled and the results hold exactly one record
\* for each task.
C22_TerminatesWithOneResultPerTask ==
    /\ [](m_pc = "running" => CanGoOn)
    /\ [][WorkLeft(t_pc', t_wake', prov_paused_until', m_pc')
            < WorkLeft(t_pc, t_wake, prov_paused_until, m_pc)]_vars
    /\ [](m_pc = "done" =>
            /\ OneResultPerTask
            /\ \A i \in TaskIds : t_pc[i] = "processed" /\ execs[i] # <<>>)

\* two github tasks sharing a semaphore of one slot, the first failing and
\* pausing github, the second succeeding: both results are returned
C22_Witness ==
    /\ m_pc = "done"
    /\ Len(scripts) = 2
    /\ \A i \in TaskIds : ProvOf(i) = "github"
    /\ workers_arg["github"] = 0
    /\ max_workers = 2
    /\ ~t_result[1].success
    /\ t_result[2].success
    /\ Len(results) = 2

\* the value the semaphore of provider prov was created with
InitialSlots(prov) == SemaphoreValue(prov, workers_arg, max_workers)

\* C23: the free slots of a semaphore and the tasks holding one of its
\* slots always add up to its initial value: a task that finished, however
\* it finished, has given its slot back, and no slot is given back that was
\* not taken; once run_parallel is over every semaphore is at its initial
\* value.
C23_SlotsAreGivenBack ==
    \A prov \in Providers :
        /\ sems[prov] + Cardinality(Holding(prov)) = InitialSlots(prov)
        /\ sems[prov] <= InitialSlots(prov)
        /\ m_pc # "running" => sems[prov] = InitialSlots(prov)

\* run_parallel has returned after a failed and a successful github task
\* that shared one slot
C23_Witness ==
    /\ m_pc = "done"
    /\ Len(scripts) = 2
    /\ \A i \in TaskIds : ProvOf(i) = "github"
    /\ InitialSlots("github") = 1
    /\ \E i, j \in TaskIds : ~t_result[i].success /\ t_result[j].success
    /\ sems["github"] = 1

----------------------------------------------------------------------------
(* run_parallel: the lock *)

\* the failed results of provider prov that the loop has counted
FailedCounted(prov) ==
    Cardinality({i \in TaskIds : /\ t_pc[i] \in {"counted", "processed"}
                                 /\ ProvOf(i) = prov
                                 /\ IsFailedResult(t_result[i])})

\* C24: a step that increments or resets a failure counter, or that sets a
\* pause, is taken by the thread that holds the lock; and every failed
\* result has been counted once: the increments of a provider are as many
\* as its failed results, and its counter is that number modulo the
\* threshold.
C24_CountersChangeUnderLock ==
    [][/\ (\/ prov_failures' # prov_failures
           \/ \E prov \in Providers :
                  prov_paused_until'[prov] > prov_paused_until[prov])
          => lock = "main" /\ lock' = "main"
       /\ \A prov \in Providers :
          /\ increments'[prov] = FailedCounted(prov)'
          /\ prov_failures'[prov] = increments'[prov] % circuit_threshold
      ]_vars

\* two failed github results have been counted, each under the lock
C24_Witness ==
    /\ lock = "free"
    /\ increments["github"] = 2
    /\ circuit_threshold = 2
    /\ prov_failures["github"] = 0
    /\ \A i \in TaskIds : t_pc[i] = "processed"

\* C25: a step of a parallel run that changes the ManifestVersionCache is
\* taken by a thread that holds a lock.
C25_CacheWritesUnderLock ==
    [][MANIFEST_VERSION_CACHE' # MANIFEST_VERSION_CACHE => lock # "free"]_vars

\* a pool thread has primed the cache from the payload of its script
\* while no thread held the lock
C25_PrimedWithoutLock ==
    /\ m_pc = "running"
    /\ lock = "free"
    /\ \E i \in TaskIds :
        /\ t_pc[i] = "finished"
        /\ MANIFEST_VERSION_CACHE[PkgOf(scripts[i])] # "absent"

----------------------------------------------------------------------------
(* main: the git block over a repository *)

\* the git commands of one kind that have been run
OpsOf(cmd) == SelectSeq(git_ops, LAMBDA o : o.cmd = cmd)

\* the commands of stage_and_commit_per_package: those before git ls-files
UpdatedPhase ==
    {k \in DOMAIN git_ops :
        \A j \in 1..k : git_ops[j].cmd # "ls-files"}

\* the manifests of the results that are updated, in the order of the run
UpdatedManifests == PkgsOf(SelectSeq(main_results, LAMBDA r : r.updated))

\* the paths of a list of git commands
RECURSIVE PathsOf(_)
PathsOf(ops) ==
    IF ops = <<>> THEN <<>> ELSE <<ops[1].path>> \o PathsOf(Tail(ops))

\* the steps of the per-package branch for the updated results: git add
\* takes the manifest of an updated result that exists, and one add is run
\* for each such result; git diff follows a successful add of the same
\* manifest and only that; git commit follows a diff of the same manifest
\* that showed a staged change and only that
PerPackageSteps ==
    /\ \A k \in UpdatedPhase :
        LET op == git_ops[k]
        IN  /\ op.cmd \in {"add", "diff", "commit"}
            /\ op.path \in Range(UpdatedManifests)
            /\ op.cmd = "add" =>
                /\ worktree[op.path] # "missing"
                /\ op.rc = 0 /\ k < Len(git_ops) =>
                      /\ git_ops[k + 1].cmd = "diff"
                      /\ git_ops[k + 1].path = op.path
                /\ op.rc = 0 /\ k = Len(git_ops) => git_pc = "pkg_diff"
            /\ op.cmd = "diff" =>
                /\ k > 1
                /\ git_ops[k - 1] = GitOp("add", op.path, 0, "-")
                /\ op.out # "-" /\ k < Len(git_ops) =>
                      /\ git_ops[k + 1].cmd = "commit"
                      /\ git_ops[k + 1].path = op.path
                /\ op.out # "-" /\ k = Len(git_ops) => git_pc = "pkg_commit"
            /\ op.cmd = "commit" =>
                /\ k > 1
                /\ git_ops[k - 1].cmd = "diff"
                /\ git_ops[k - 1].path = op.path
                /\ git_ops[k - 1].out # "-"
    /\ git_pc \in {"unt", "unt_commit", "done"} =>
          PathsOf(SelectSeq(SubSeq(git_ops, 1, Cardinality(UpdatedPhase)),
                            LAMBDA o : o.cmd = "add"))
              = SelectSeq(UpdatedManifests,
                          LAMBDA m : worktree[m] # "missing")

\* a push is the last command of the block
PushIsLast ==
    \A k \in DOMAIN git_ops : git_ops[k].cmd = "push" => k = Len(git_ops)

\* C26: in aggregate mode, when the staged diff lists added and updated
\* manifests, every commit created holds the manifests of its group and no
\* other, at most two commits are attempted, and at most one push is run,
\* as the last command.
C26_AggregateCommitsAreApart ==
    ~PerPackageMode(args) /\ added_apps # <<>> /\ updated_apps # <<>> =>
        /\ \A k \in DOMAIN commits :
            commits[k].files = IF commits[k].subject = <<"updated">>
                               THEN Range(updated_apps)
                               ELSE Range(added_apps)
        /\ Len(OpsOf("commit")) <= 2
        /\ Len(OpsOf("push")) <= 1
        /\ PushIsLast

\* every git command answered as git does on a sound repository, and the
\* commit of the updated manifests took the added manifest with it; the
\* commit of the added manifests found nothing to commit
C26_OneCommitTakesAll ==
    /\ ~PerPackageMode(args)
    /\ git_pc = "done"
    /\ updated_apps = <<PkgOf(ScriptA)>>
    /\ added_apps = <<PkgOf(ScriptB)>>
    /\ commits = <<[subject |-> <<"updated">>,
                    files |-> {PkgOf(ScriptA), PkgOf(ScriptB)}]>>
    /\ PathsOf(OpsOf("commit")) = <<<<"updated">>, <<"added">>>>
    /\ OpsOf("commit")[2].rc = 1
    /\ Len(OpsOf("push")) = 1

\* C27: in per-package mode the commands for the updated results are, for
\* each result whose manifest exists, git add of that manifest, then git
\* diff of it if the add succeeded, then git commit if the diff showed a
\* staged change, and no other command; when the block is over one push
\* has been run as the last command, or none if SCOOP_GIT_DRY_RUN is set.
C27_PerPackageStepsOnePushUnlessDryRun ==
    PerPackageMode(args) =>
        /\ PerPackageSteps
        /\ PushIsLast
        /\ git_pc # "done" => OpsOf("push") = <<>>
        /\ git_pc = "done" =>
              Len(OpsOf("push")) = IF args.git_dry_run THEN 0 ELSE 1

\* the statement without the dry run: when the block is over exactly one
\* push has been run
C27_PerPackageStepsOnePush ==
    PerPackageMode(args) =>
        /\ PerPackageSteps
        /\ PushIsLast
        /\ git_pc # "done" => OpsOf("push") = <<>>
        /\ git_pc = "done" => Len(OpsOf("push")) = 1

\* a dry run of git: the manifest of an updated result was added, its diff
\* inspected and its commit created, and the block ended without a push
C27_Witness ==
    /\ PerPackageMode(args)
    /\ args.git_dry_run
    /\ git_pc = "done"
    /\ git_ops = <<GitOp("add", PkgOf(ScriptA), 0, "-"),
                   GitOp("diff", PkgOf(ScriptA), 0, "M"),
                   GitOp("commit", PkgOf(ScriptA), 0, "-"),
                   GitOp("ls-files", Bucket, 0, "-")>>

\* C30: in per-package mode every commit created holds the manifest of its
\* package and no other.
C30_CommitHoldsOnlyItsManifest ==
    PerPackageMode(args) =>
        \A k \in DOMAIN commits : commits[k].files = {commits[k].subject}

\* the commit of the first package failed and the commit of the second
\* package took both manifests
C30_EarlierManifestSwept ==
    /\ PerPackageMode(args)
    /\ \E k \in DOMAIN git_ops :
          git_ops[k] = GitOp("commit", PkgOf(ScriptA), 1, "-")
    /\ commits = <<[subject |-> PkgOf(ScriptB),
                    files |-> {PkgOf(ScriptA), PkgOf(ScriptB)}]>>

----------------------------------------------------------------------------
(* classify_provider *)

\* the value of the override mapping for a key, if it is there and not ""
Override(key) ==
    IF key \in DOMAIN provider_map /\ provider_map[key] # ""
    THEN <<provider_map[key]>> ELSE <<>>

\* a domain of the set occurs in the part of the file that was read
InInspectedPrefix(domains) ==
    \E k \in 1..Len(c_file.text) :
        /\ k <= ReadPieces
        /\ DomainsIn(c_file.text[k]) \cap domains # {}

\* C28: classify_provider returns the override of the script name if there
\* is one that is not empty, else that of the package name, else github,
\* microsoft or google, in this order, for the first of them that has a
\* domain in the inspected prefix of the file, else other; it returns other
\* for a file that cannot be read.
C28_ClassifyProviderOrder ==
    c_pc = "done" =>
        c_ret =
            IF Override(c_path) # <<>> THEN Override(c_path)[1]
            ELSE IF Override(PkgOf(c_path)) # <<>>
            THEN Override(PkgOf(c_path))[1]
            ELSE IF ~c_file.readable THEN "other"
            ELSE IF InInspectedPrefix({"github.com", "api.github.com"})
            THEN "github"
            ELSE IF InInspectedPrefix(MICROSOFT_DOMAINS) THEN "microsoft"
            ELSE IF InInspectedPrefix(GOOGLE_DOMAINS) THEN "google"
            ELSE "other"

\* no override; the file names a google domain before a microsoft domain in
\* the inspected prefix and a github domain after it: microsoft is returned
C28_Witness ==
    /\ c_pc = "done"
    /\ provider_map = [key \in {ScriptA} |-> ""]
    /\ c_file = [readable |-> TRUE,
                 text |-> <<"cloudfront.net", "go.microsoft.com",
                            "api.github.com">>]
    /\ c_ret = "microsoft"

----------------------------------------------------------------------------
(* parse_script_output: two payloads *)

\* the first payload of an output that starts with one
FirstPayload(output) ==
    SubSeq(output, 1, SetMin(Positions(output, "}")))

\* the output is a payload with an updated key, a gap of line breaks and
\* words, and a second payload with an updated key
TwoPayloads(output) ==
    /\ Cardinality(Positions(output, "{")) = 2
    /\ Cardinality(Positions(output, "}")) = 2
    /\ output[1] = "{" /\ output[Len(output)] = "}"
    /\ LET close == SetMin(Positions(output, "}"))
           open == SetMax(Positions(output, "{"))
       IN  /\ close < open
           /\ HasUpdatedKey(JsonLoads(SubSeq(output, 1, close)))
           /\ HasUpdatedKey(JsonLoads(SubSeq(output, open, Len(output))))
           /\ \A k \in (close + 1)..(open - 1) : output[k] \in {"nl", "x"}

\* C29: on an output with two payloads that have an updated key, the
\* verdict returned is that of the first payload.
C29_FirstPayloadWins ==
    p_pc = "done" /\ TwoPayloads(p_output) =>
        LET first == BoolOfUpdated(JsonLoads(FirstPayload(p_output)))
        IN  p_ret = <<first, ~first>>

\* {"updated": true} on one line and {"updated": false} on the next: the
\* verdict is that of the second payload
C29_LastPayloadWins ==
    /\ p_pc = "done"
    /\ p_output = <<"{", "ut", "}", "nl", "{", "uf", "}">>
    /\ p_ret = <<FALSE, TRUE>>

====
